---------------------------- MODULE Spec2Model ----------------------------
(*
  A model of world2.cpp: the DYNAMO lookup functions (dynamo::clip,
  dynamo::tabhl, dynamo::table), the World2 simulation engine
  (world2::world: constructor, run_complete(), tick()) and the loop that
  drives it and samples its snapshots.

  Numbers.  The program computes in IEEE 754 doubles, and so does the model:
  a double is a record of its sign, exponent and 53-bit significand, and
  FAdd, FSub, FMul and FDiv round to nearest, ties to even, with subnormals,
  signed zeros, infinities and NaN.  A decimal literal of the source is the
  double nearest to it (Milli(1650) is 1.65, Mega(135) is 135E6).  Equality
  of two snapshots (=) compares bit for bit; FEq, FLt, ... are the C++
  comparison operators.

  Undefined behaviour.  Converting a NaN, a value of -1 or below, or a value
  of 2^64 or above to size_t, converting a value outside int to int, and
  reading ytbl outside its bounds are undefined in C++.  What such an
  operation yields is a property of the build (compiler and machine), held
  in the variable build and passed to the operators as bd; a read outside
  the table either stops the process ("fault") or yields the value the build
  names.
*)
EXTENDS Integers, Sequences, FiniteSets

VARIABLES
    c,                \* world::c               the parameter set
    j,                \* world::j               the stored snapshot (time .J)
    time_j_exists_,   \* world::time_j_exists_
    tables,           \* the literal tables of the lookup calls in world::tick
    build,            \* what the build does where C++ leaves behaviour undefined
    calls,            \* number of tick() calls made so far
    nok,              \* number of tick() calls that returned
    last,             \* outcome of the latest tick(): "none", "ok", "range", "size", "fault"
    before,           \* engine state (j, time_j_exists_) when the latest tick() began
    ret,              \* copy of the snapshot at the moment the latest successful tick() returned it
    rc,               \* run_complete() results: latest answer and the ok-count at the first "true"
    held,             \* a caller keeping the reference returned by tick()
    lk,               \* arguments of a lookup call
    lkOut,            \* result of the lookup call
    samples           \* what the driving loop has sampled so far, oldest first

vars == << c, j, time_j_exists_, tables, build, calls, nok, last, before, ret, rc, held, lk, lkOut, samples >>

engineVars == << c, j, time_j_exists_, tables, build, calls, nok, last, before, ret, rc, held, samples >>

-----------------------------------------------------------------------------
(* IEEE 754 binary64 arithmetic, round to nearest, ties to even *)


\* a significand is held in limbs of 14 bits, lowest first
B == 2 ^ 14

MZero == << 0, 0, 0, 0 >>

\* the double (-1)^s * m * 2^e: k "num" with m below 2^53 and e in
\* -1074..971, m at least 2^52 unless e = -1074 (subnormal, zero);
\* k "inf"; k "nan"
Num(s, e, m) == [k |-> "num", s |-> s, e |-> e, m |-> m]

Inf(s) == [k |-> "inf", s |-> s, e |-> 972, m |-> MZero]

NaN == [k |-> "nan", s |-> 0, e |-> 972, m |-> MZero]

Zero(s) == Num(s, -1074, MZero)

IsNaN(a) == a.k = "nan"

IsInf(a) == a.k = "inf"

IsZero(a) == a.k = "num" /\ a.m = MZero

\* limb i of n, 0 beyond its length
Limb(n, i) == IF i \in DOMAIN n THEN n[i] ELSE 0

Low4(n) == << n[1], n[2], n[3], n[4] >>

Low5(n) == << n[1], n[2], n[3], n[4], n[5] >>

\* n < m, for numbers of four limbs
MLess(n, m) ==
    \/ n[4] < m[4]
    \/ n[4] = m[4] /\ n[3] < m[3]
    \/ n[4] = m[4] /\ n[3] = m[3] /\ n[2] < m[2]
    \/ n[4] = m[4] /\ n[3] = m[3] /\ n[2] = m[2] /\ n[1] < m[1]

\* the limbs of the number whose digits (of any sign and size) are x[i..],
\* plus the carry cin; one limb more than x has digits, the last unreduced
RECURSIVE Carry(_, _, _)
Carry(x, i, cin) ==
    IF i > Len(x) THEN << cin >>
    ELSE << (x[i] + cin) % B >> \o Carry(x, i + 1, (x[i] + cin) \div B)

\* a shift by sh bits is one by whole limbs and one by bits
Limbs(sh) == sh \div 14

Bits(sh) == sh % 14

\* limb i of n div 2^sh
ShrLimb(n, i, sh) ==
    (Limb(n, i + Limbs(sh)) \div (2 ^ Bits(sh)))
    + (Limb(n, i + 1 + Limbs(sh)) % (2 ^ Bits(sh))) * (2 ^ (14 - Bits(sh)))

\* n div 2^sh, its low four limbs
Shr(n, sh) == << ShrLimb(n, 1, sh), ShrLimb(n, 2, sh), ShrLimb(n, 3, sh), ShrLimb(n, 4, sh) >>

\* some bit of n below bit sh is set
Lost(n, sh) ==
    \/ \E i \in 1..Limbs(sh) : Limb(n, i) # 0
    \/ Limb(n, 1 + Limbs(sh)) % (2 ^ Bits(sh)) # 0

\* the lowest bit of n made to remember bits cut off below it
Jam(n, lost) == IF lost /\ n[1] % 2 = 0 THEN [n EXCEPT ![1] = @ + 1] ELSE n

ShrJam(n, sh) == Jam(Shr(n, sh), Lost(n, sh))

\* the finite double, or infinity beyond the largest exponent
Fin(s, e, q) == IF e > 971 THEN Inf(s) ELSE Num(s, e, q)

\* q + 1 at exponent e
RoundUp(s, e, q) ==
    IF q = << B - 1, B - 1, B - 1, 2047 >>
    THEN Fin(s, e + 1, << 0, 0, 0, 1024 >>)
    ELSE Fin(s, e, Low4(Carry(<< q[1] + 1, q[2], q[3], q[4] >>, 1, 0)))

\* q with the three bits r cut off below it, rounded to nearest, ties to even
Nearest(s, e, q, r) ==
    IF r > 4 \/ (r = 4 /\ q[1] % 2 = 1) THEN RoundUp(s, e, q) ELSE Fin(s, e, q)

\* The double nearest to n * 2^e, for n of four limbs whose lowest bit
\* remembers what was cut off below it, the top bit (2^55) set
Pack(s, e, n) ==
    IF e < -1140 THEN Zero(s)
    ELSE IF e < -1077 THEN Nearest(s, -1074, Shr(ShrJam(n, -1077 - e), 3),
                                   ShrJam(n, -1077 - e)[1] % 8)
    ELSE Nearest(s, e + 3, Shr(n, 3), n[1] % 8)

\* << e, n >> shifted left until the top bit (2^55) of n is set; n # 0
RECURSIVE NormLeft(_, _)
NormLeft(e, n) ==
    IF n[4] >= 8192 THEN << e, n >>
    ELSE IF n[4] = 0 THEN NormLeft(e - 14, << 0, n[1], n[2], n[3] >>)
    ELSE NormLeft(e - 1, Low4(Carry(<< 2 * n[1], 2 * n[2], 2 * n[3], 2 * n[4] >>, 1, 0)))

\* << e, n >>: the finite nonzero double a as n * 2^e, top bit of n set
Sig(a) == NormLeft(a.e - 3, Low4(Carry(<< 8 * a.m[1], 8 * a.m[2], 8 * a.m[3], 8 * a.m[4] >>, 1, 0)))

\* the limbs of an integer 0 <= i < 2^31
IntLimbs(i) == << i % B, (i \div B) % B, i \div (B * B), 0 >>

\* the double of the significand and exponent p = << e, n >>
PackPair(s, p) == Pack(s, p[1], p[2])

\* the double of an integer below 2^31 in size
FromInt(i) ==
    IF i = 0 THEN Zero(0)
    ELSE IF i < 0 THEN PackPair(1, NormLeft(0, IntLimbs(-i)))
    ELSE PackPair(0, NormLeft(0, IntLimbs(i)))

\* -a
FNeg(a) == IF IsNaN(a) THEN a ELSE [a EXCEPT !.s = 1 - @]

\* |a| < |b| for finite or infinite a, b
MagLess(a, b) == a.e < b.e \/ (a.e = b.e /\ MLess(a.m, b.m))

\* a < b
FLt(a, b) ==
    IF IsNaN(a) \/ IsNaN(b) THEN FALSE
    ELSE IF IsZero(a) /\ IsZero(b) THEN FALSE
    ELSE IF a.s # b.s THEN a.s = 1
    ELSE IF a.s = 0 THEN MagLess(a, b) ELSE MagLess(b, a)

\* a == b
FEq(a, b) == ~IsNaN(a) /\ ~IsNaN(b) /\ (a = b \/ (IsZero(a) /\ IsZero(b)))

\* a > b, a <= b, a >= b
FGt(a, b) == FLt(b, a)

FLe(a, b) == FLt(a, b) \/ FEq(a, b)

FGe(a, b) == FLe(b, a)

\* the seven column sums of the product of two numbers of four limbs
MulCols(a, b) ==
    << a[1] * b[1],
       a[1] * b[2] + a[2] * b[1],
       a[1] * b[3] + a[2] * b[2] + a[3] * b[1],
       a[1] * b[4] + a[2] * b[3] + a[3] * b[2] + a[4] * b[1],
       a[2] * b[4] + a[3] * b[3] + a[4] * b[2],
       a[3] * b[4] + a[4] * b[3],
       a[4] * b[4] >>

\* the product p (eight limbs, 111 or 112 bits) at exponent e
MulPack(s, e, p) ==
    IF p[8] >= 8192 THEN Pack(s, e + 56, ShrJam(p, 56))
                    ELSE Pack(s, e + 55, ShrJam(p, 55))

MulSig(s, x, y) == MulPack(s, x[1] + y[1], Carry(MulCols(x[2], y[2]), 1, 0))

\* a * b
FMul(a, b) ==
    IF IsNaN(a) \/ IsNaN(b) THEN NaN
    ELSE IF (IsInf(a) /\ IsZero(b)) \/ (IsZero(a) /\ IsInf(b)) THEN NaN
    ELSE IF IsInf(a) \/ IsInf(b) THEN Inf((a.s + b.s) % 2)
    ELSE IF IsZero(a) \/ IsZero(b) THEN Zero((a.s + b.s) % 2)
    ELSE MulSig((a.s + b.s) % 2, Sig(a), Sig(b))

\* the sum n of two significands (five limbs) at exponent e
AddPack(s, e, n) ==
    IF n[5] > 0 THEN Pack(s, e + 1, ShrJam(n, 1)) ELSE Pack(s, e, Low4(n))

\* the difference n of two significands (four limbs) at exponent e

SubPack(s, e, n) == IF n = MZero THEN Zero(0) ELSE PackPair(s, NormLeft(e, n))

\* x + y or x - y for significands << e, n >>, x the larger, y shifted to y2
AddSig(s, diff, x, y2) ==
    IF diff
    THEN SubPack(s, x[1], Low4(Carry(<< x[2][1] - y2[1], x[2][2] - y2[2],
                                        x[2][3] - y2[3], x[2][4] - y2[4] >>, 1, 0)))
    ELSE AddPack(s, x[1], Carry(<< x[2][1] + y2[1], x[2][2] + y2[2],
                                   x[2][3] + y2[3], x[2][4] + y2[4] >>, 1, 0))

\* a + b for finite nonzero a, b with |a| >= |b|
AddOrdered(a, b, x, y) == AddSig(a.s, a.s # b.s, x, ShrJam(y[2], x[1] - y[1]))

\* a + b
FAdd(a, b) ==
    IF IsNaN(a) \/ IsNaN(b) THEN NaN
    ELSE IF IsInf(a) /\ IsInf(b) THEN (IF a.s = b.s THEN a ELSE NaN)
    ELSE IF IsInf(a) THEN a
    ELSE IF IsInf(b) THEN b
    ELSE IF IsZero(a) /\ IsZero(b) THEN (IF a.s = b.s THEN a ELSE Zero(0))
    ELSE IF IsZero(a) THEN b
    ELSE IF IsZero(b) THEN a
    ELSE IF MagLess(a, b) THEN AddOrdered(b, a, Sig(b), Sig(a))
    ELSE AddOrdered(a, b, Sig(a), Sig(b))

\* a - b
FSub(a, b) == FAdd(a, FNeg(b))

\* << d, t >> with t = r * B - d * b brought below b (five limbs) by raising d
RECURSIVE DivFix(_, _, _)
DivFix(t, b, d) ==
    IF t[5] = 0 /\ MLess(Low4(t), b) THEN << d, Low4(t) >>
    ELSE DivFix(Low5(Carry(<< t[1] - b[1], t[2] - b[2], t[3] - b[3], t[4] - b[4], t[5] >>, 1, 0)),
                b, d + 1)

\* the digit d tried on r * B
DivTry(r, b, d) ==
    DivFix(Low5(Carry(<< 0 - d * b[1], r[1] - d * b[2], r[2] - d * b[3],
                         r[3] - d * b[4], r[4] >>, 1, 0)), b, d)

\* an estimate of (r * B) div b from the leading bits, not above the digit
DivGuess(r, b) == (r[4] * 65536 + r[3] * 4 + (r[2] \div 4096)) \div (b[4] * 4 + (b[3] \div 4096))

\* << d, t >>: r * B = d * b + t, 0 <= t < b, for r < b, top bit of b set
DivStep(r, b) == DivTry(r, b, IF DivGuess(r, b) = 0 THEN 0 ELSE DivGuess(r, b) - 1)

\* the next n digits of r / b put below the digits acc; << digits, remainder >>
RECURSIVE DivDigits(_, _, _, _)
DivNext(b, n, acc, st) == DivDigits(st[2], b, n - 1, << st[1] >> \o acc)

DivDigits(r, b, n, acc) ==
    IF n = 0 THEN << acc, r >> ELSE DivNext(b, n, acc, DivStep(r, b))

\* the quotient digits qr[1] (five limbs, 56 or 57 bits) and remainder qr[2]
DivPack(s, e, qr) ==
    IF qr[1][5] > 0
    THEN Pack(s, e + 1, Jam(ShrJam(qr[1], 1), qr[2] # MZero))
    ELSE Pack(s, e, Jam(Low4(qr[1]), qr[2] # MZero))

\* x / y for significands << e, n >>
DivSig(s, x, y) ==
    IF MLess(x[2], y[2])
    THEN DivPack(s, x[1] - y[1] - 56, DivDigits(x[2], y[2], 4, << 0 >>))
    ELSE DivPack(s, x[1] - y[1] - 56,
                 DivDigits(Low4(Carry(<< x[2][1] - y[2][1], x[2][2] - y[2][2],
                                         x[2][3] - y[2][3], x[2][4] - y[2][4] >>, 1, 0)),
                           y[2], 4, << 1 >>))

\* a / b
FDiv(a, b) ==
    IF IsNaN(a) \/ IsNaN(b) THEN NaN
    ELSE IF (IsInf(a) /\ IsInf(b)) \/ (IsZero(a) /\ IsZero(b)) THEN NaN
    ELSE IF IsInf(a) \/ IsZero(b) THEN Inf((a.s + b.s) % 2)
    ELSE IF IsInf(b) \/ IsZero(a) THEN Zero((a.s + b.s) % 2)
    ELSE DivSig((a.s + b.s) % 2, Sig(a), Sig(b))


-----------------------------------------------------------------------------
(* Literals and conversions *)

\* the largest and the smallest int
MaxInt == (2 ^ 30 - 1) + 2 ^ 30

MinInt == (-MaxInt) - 1

\* n / 1000: the double a decimal literal of the source with up to three
\* decimals denotes (the quotient of two exact doubles, correctly rounded)
Milli(n) == FDiv(FromInt(n), FromInt(1000))

\* a table of such literals
RECURSIVE MilliSeq(_)
MilliSeq(t) == IF t = << >> THEN << >> ELSE << Milli(Head(t)) >> \o MilliSeq(Tail(t))

\* n * 10^6, exact (n below 2^31 in magnitude): .4E9 is Mega(400)
Mega(n) == FMul(FromInt(n), FromInt(1000000))

\* 1.0
One == Num(0, -52, << 0, 0, 0, 1024 >>)

TwoTo63 == Num(0, 11, << 0, 0, 0, 1024 >>)

TwoTo64 == Num(0, 12, << 0, 0, 0, 1024 >>)

\* a finite double below 2^31 in magnitude
IsSmall(a) == a.k = "num" /\ a.e <= -22

IntOf(q) == q[1] + q[2] * B + q[3] * B * B

\* the integer part of the magnitude of a small double
IntPart(a) == IF a.e < -52 THEN 0 ELSE IntOf(Shr(a.m, 0 - a.e))

\* the magnitude of a small double has a fractional part of a half or more
HalfBit(a) == IF a.e < -53 \/ a.e > -1 THEN 0 ELSE Shr(a.m, (0 - a.e) - 1)[1] % 2

(*
  A size_t is held as an integer: a value below 2^31 - 1 as itself, a value
  2^64 - k (k below 2^31) as -k, and every value between as Huge.  So 0 - 1
  is the size_t 2^64 - 1, as in C++.
*)
Huge == MaxInt

\* size_t of a negative double of -1 or below: undefined behaviour
NegToSize(bd, a) ==
    IF bd.wrap THEN (IF IsSmall(a) THEN 0 - IntPart(a) ELSE Huge) ELSE bd.neg

\* static_cast<size_t>(a): the integer part of a; undefined behaviour for a
\* NaN, a double of -1 or below and a double of 2^64 or more.  A double from
\* 2^31 to below 2^64 is a whole number: 2^64 - k when 2^64 - a = k is
\* below 2^31 (the difference of the two doubles is exact), else Huge.
ToSize(bd, a) ==
    IF IsNaN(a) THEN bd.nan
    ELSE IF IsInf(a) THEN (IF a.s = 0 THEN bd.big ELSE NegToSize(bd, a))
    ELSE IF IsSmall(a) THEN (IF a.s = 0 \/ IntPart(a) = 0 THEN IntPart(a) ELSE NegToSize(bd, a))
    ELSE IF a.s = 1 THEN NegToSize(bd, a)
    ELSE IF a.e >= 12 THEN bd.big
    ELSE IF IsSmall(FSub(TwoTo64, a)) THEN 0 - IntPart(FSub(TwoTo64, a))
    ELSE Huge

\* the double a size_t converts to.  Huge is converted as 2^63, the size_t
\* a NaN converts to on x86-64: tabhl converts a subscript only after the
\* size check and the clamps, and where the conversion of the range is
\* defined no other value held as Huge passes them.
SizeToDouble(i) ==
    IF i = Huge THEN TwoTo63
    ELSE IF i < 0 THEN FAdd(TwoTo64, FromInt(i))
    ELSE FromInt(i)

\* static_cast<int>(std::round(a)): halves round away from zero; undefined
\* behaviour outside the range of int
RoundToInt(bd, a) ==
    IF IsNaN(a) THEN bd.inan
    ELSE IF ~IsSmall(a) \/ (IntPart(a) = MaxInt /\ HalfBit(a) = 1)
         THEN (IF a.s = 0 THEN bd.ibig ELSE bd.ineg)
    ELSE IF a.s = 0 THEN IntPart(a) + HalfBit(a)
    ELSE 0 - (IntPart(a) + HalfBit(a))

(*
  Builds.  wrap: a negative double converts to size_t modulo 2^64 (else to
  neg); nan, big: the size_t a NaN and a double of 2^64 or more convert to;
  inan, ineg, ibig: the int a NaN and a double below and above the range of
  int convert to; fault: a read outside the table stops the process (else it
  yields wild).
*)
BuildX86 ==
    [wrap |-> TRUE, neg |-> 0, nan |-> Huge, big |-> 0,
     inan |-> MinInt, ineg |-> MinInt, ibig |-> MinInt,
     fault |-> FALSE, wild |-> Zero(0)]

BuildChecked == [BuildX86 EXCEPT !.fault = TRUE]

BuildSaturating ==
    [wrap |-> FALSE, neg |-> 0, nan |-> 0, big |-> 0 - 1,
     inan |-> 0, ineg |-> MinInt, ibig |-> MaxInt,
     fault |-> FALSE, wild |-> One]

Builds == { BuildX86, BuildChecked, BuildSaturating }

-----------------------------------------------------------------------------
(* namespace dynamo *)

\* a variant of clip: the switch never happens
clip_never(a, b, cc, d) == a

\* a variant of clip: the second value already applies at the switch time
clip_atSwitch(a, b, cc, d) == IF FGt(cc, d) THEN a ELSE b

\* dynamo::clip
clip(a, b, cc, d) == IF FGe(cc, d) THEN a ELSE b

\* size_t arithmetic: i + 1, r - 1 and i == r
SizeSucc(i) == IF i = Huge THEN Huge ELSE i + 1

SizePred(r) == IF r = Huge THEN Huge ELSE r - 1

SameSize(i, r) == i = r /\ i # Huge

\* a variant of TabRange: the number of segments, not of entries
TabRange_segments(bd, xstart, xend, xstep) ==
    ToSize(bd, FDiv(FSub(xend, xstart), xstep))

\* the table length tabhl requires: static_cast<size_t>((xend - xstart) / xstep + 1)
TabRange(bd, xstart, xend, xstep) ==
    ToSize(bd, FAdd(FDiv(FSub(xend, xstart), xstep), One))

\* the segment index: static_cast<size_t>((x - xstart) / xstep)
TabIndex(bd, x, xstart, xstep) == ToSize(bd, FDiv(FSub(x, xstart), xstep))

\* subscript i (from 0) lies inside ytbl
InTable(ytbl, i) == i >= 0 /\ i < Len(ytbl)

\* C++ ytbl[i], ytbl.back(); outside the table the build decides
At(bd, ytbl, i) == IF InTable(ytbl, i) THEN ytbl[i + 1] ELSE bd.wild

Back(bd, ytbl) == At(bd, ytbl, Len(ytbl) - 1)

\* a variant of Interpolate: the offset is taken from xstart, not from grid point i
Interpolate_fromStart(bd, ytbl, i, x, xstart, xstep) ==
    FAdd(At(bd, ytbl, i),
         FDiv(FMul(FSub(x, xstart),
                   FSub(At(bd, ytbl, SizeSucc(i)), At(bd, ytbl, i))),
              xstep))

\* a variant of Interpolate: the slope has the wrong sign
Interpolate_slopeReversed(bd, ytbl, i, x, xstart, xstep) ==
    FAdd(At(bd, ytbl, i),
         FDiv(FMul(FSub(FSub(x, xstart), FMul(xstep, SizeToDouble(i))),
                   FSub(At(bd, ytbl, i), At(bd, ytbl, SizeSucc(i)))),
              xstep))

\* linear interpolation on segment i:
\* ytbl[i] + (x - xstart - (xstep * i)) * (ytbl[i + 1] - ytbl[i]) / xstep
Interpolate(bd, ytbl, i, x, xstart, xstep) ==
    FAdd(At(bd, ytbl, i),
         FDiv(FMul(FSub(FSub(x, xstart), FMul(xstep, SizeToDouble(i))),
                   FSub(At(bd, ytbl, SizeSucc(i)), At(bd, ytbl, i))),
              xstep))

\* tabhl on the segment of x, i being the segment index and range the
\* required length: "if (i == range - 1) return ytbl[i];", else interpolation
Segment(bd, ytbl, x, xstart, xstep, range, i) ==
    IF SameSize(i, SizePred(range)) THEN At(bd, ytbl, i)
    ELSE Interpolate(bd, ytbl, i, x, xstart, xstep)

\* a variant of TabhlValue: the descending branch clamps to the wrong ends
TabhlValue_descSwapped(bd, ytbl, x, xstart, xend, xstep, range, i) ==
    IF FLt(xstart, xend) /\ FLt(x, xstart) THEN At(bd, ytbl, 0)
    ELSE IF FLt(xstart, xend) /\ FGt(x, xend) THEN Back(bd, ytbl)
    ELSE IF ~FLt(xstart, xend) /\ FLt(x, xend) THEN At(bd, ytbl, 0)
    ELSE IF ~FLt(xstart, xend) /\ FGt(x, xstart) THEN Back(bd, ytbl)
    ELSE Segment(bd, ytbl, x, xstart, xstep, range, i)

\* The part of tabhl after the size check: clamping, then the segment.
\* range and i are the locals of tabhl; i is computed only when no
\* clamping test has returned.
TabhlValue(bd, ytbl, x, xstart, xend, xstep, range, i) ==
    IF FLt(xstart, xend) /\ FLt(x, xstart) THEN At(bd, ytbl, 0)
    ELSE IF FLt(xstart, xend) /\ FGt(x, xend) THEN Back(bd, ytbl)
    ELSE IF ~FLt(xstart, xend) /\ FLt(x, xend) THEN Back(bd, ytbl)
    ELSE IF ~FLt(xstart, xend) /\ FGt(x, xstart) THEN At(bd, ytbl, 0)
    ELSE Segment(bd, ytbl, x, xstart, xstep, range, i)

\* a variant of TabhlReads: no test for the last entry before interpolating
TabhlReads_noLastTest(ytbl, x, xstart, xend, range, i) ==
    IF FLt(xstart, xend) /\ FLt(x, xstart) THEN { 0 }
    ELSE IF FLt(xstart, xend) /\ FGt(x, xend) THEN { Len(ytbl) - 1 }
    ELSE IF ~FLt(xstart, xend) /\ FLt(x, xend) THEN { Len(ytbl) - 1 }
    ELSE IF ~FLt(xstart, xend) /\ FGt(x, xstart) THEN { 0 }
    ELSE { i, SizeSucc(i) }

\* the subscripts of ytbl (from 0) that tabhl evaluates after the size check:
\* ytbl[0], ytbl.back(), ytbl[i], ytbl[i + 1]
TabhlReads(ytbl, x, xstart, xend, range, i) ==
    IF FLt(xstart, xend) /\ FLt(x, xstart) THEN { 0 }
    ELSE IF FLt(xstart, xend) /\ FGt(x, xend) THEN { Len(ytbl) - 1 }
    ELSE IF ~FLt(xstart, xend) /\ FLt(x, xend) THEN { Len(ytbl) - 1 }
    ELSE IF ~FLt(xstart, xend) /\ FGt(x, xstart) THEN { 0 }
    ELSE IF SameSize(i, SizePred(range)) THEN { i }
    ELSE { i, SizeSucc(i) }

\* what a lookup call does: it returns val (err "none"), throws (err "size",
\* "range") or, on a build that stops at a read outside the table, never
\* returns (err "fault")
Returns(v) == [err |-> "none", val |-> v]

Throws(e) == [err |-> e, val |-> Zero(0)]

\* tabhl once the size check has passed
TabhlBody(bd, ytbl, x, xstart, xend, xstep, range, i) ==
    IF bd.fault /\ \E r \in TabhlReads(ytbl, x, xstart, xend, range, i) : ~InTable(ytbl, r)
    THEN Throws("fault")
    ELSE Returns(TabhlValue(bd, ytbl, x, xstart, xend, xstep, range, i))

\* a variant of TabhlSized: x outside the domain is clamped before the size is checked
TabhlSized_clampFirst(bd, ytbl, x, xstart, xend, xstep, range) ==
    IF (IF FLt(xstart, xend) THEN FLt(x, xstart) \/ FGt(x, xend)
                             ELSE FLt(x, xend) \/ FGt(x, xstart))
    THEN TabhlBody(bd, ytbl, x, xstart, xend, xstep, range, TabIndex(bd, x, xstart, xstep))
    ELSE IF Len(ytbl) # range
    THEN Throws("size")
    ELSE TabhlBody(bd, ytbl, x, xstart, xend, xstep, range, TabIndex(bd, x, xstart, xstep))

\* a variant of TabhlSized: x beyond the domain is an error, as in table
TabhlSized_checked(bd, ytbl, x, xstart, xend, xstep, range) ==
    IF (FLt(x, xstart) /\ FLt(x, xend)) \/ (FGt(x, xstart) /\ FGt(x, xend))
    THEN Throws("range")
    ELSE IF Len(ytbl) # range
         THEN Throws("size")
         ELSE TabhlBody(bd, ytbl, x, xstart, xend, xstep, range, TabIndex(bd, x, xstart, xstep))

\* tabhl, range being its first local: the size check, then the body with
\* "const size_t i = static_cast<size_t>((x - xstart) / xstep)"
TabhlSized(bd, ytbl, x, xstart, xend, xstep, range) ==
    IF Len(ytbl) # range
    THEN Throws("size")
    ELSE TabhlBody(bd, ytbl, x, xstart, xend, xstep, range, TabIndex(bd, x, xstart, xstep))

\* dynamo::tabhl
tabhl(bd, ytbl, x, xstart, xend, xstep) ==
    TabhlSized(bd, ytbl, x, xstart, xend, xstep, TabRange(bd, xstart, xend, xstep))

\* a variant of OutOfRange: the test of the ascending branch whatever the direction
OutOfRange_ascOnly(x, xstart, xend) == FLt(x, xstart) \/ FGt(x, xend)

\* the range test of dynamo::table
OutOfRange(x, xstart, xend) ==
    IF FLt(xstart, xend) THEN FLt(x, xstart) \/ FGt(x, xend)
                         ELSE FLt(x, xend) \/ FGt(x, xstart)

\* dynamo::table.  Throws (err "range") before it calls tabhl.
table(bd, ytbl, x, xstart, xend, xstep) ==
    IF OutOfRange(x, xstart, xend)
    THEN Throws("range")
    ELSE tabhl(bd, ytbl, x, xstart, xend, xstep)

-----------------------------------------------------------------------------
(* namespace world2: class world *)

Zero0 == Zero(0)


\* world::variables with its default member initialisers (all 0)
ZeroVariables ==
    [ci |-> Zero0, ciaf |-> Zero0, nr |-> Zero0, p |-> Zero0, pol |-> Zero0,
     br |-> Zero0, cid |-> Zero0, cig |-> Zero0, dr |-> Zero0, nrur |-> Zero0,
     pola |-> Zero0, polg |-> Zero0,
     brcm |-> Zero0, brfm |-> Zero0, brmm |-> Zero0, brpm |-> Zero0, cfifr |-> Zero0,
     cim |-> Zero0, ciqr |-> Zero0, cir |-> Zero0, cira |-> Zero0, cr |-> Zero0,
     drcm |-> Zero0, drfm |-> Zero0, drmm |-> Zero0, drpm |-> Zero0, ecir |-> Zero0,
     fcm |-> Zero0, fpci |-> Zero0, fpm |-> Zero0, fr |-> Zero0, msl |-> Zero0,
     nrem |-> Zero0, nrfr |-> Zero0, nrmm |-> Zero0, polat |-> Zero0, polcm |-> Zero0,
     polr |-> Zero0, ql |-> Zero0, qlc |-> Zero0, qlf |-> Zero0, qlm |-> Zero0,
     qlp |-> Zero0, time |-> Zero0]

\* world::constants with its default member initialisers
DefaultConstants ==
    [brn |-> Milli(40), brn1 |-> Milli(40), ciafi |-> Milli(200), ciafn |-> Milli(300),
     ciaft |-> FromInt(15), cidn |-> Milli(25), cidn1 |-> Milli(25), cign |-> Milli(50),
     cign1 |-> Milli(50), cii |-> Mega(400), drn |-> Milli(28), drn1 |-> Milli(28),
     ecirn |-> One, fc |-> One, fc1 |-> One, fn |-> One, la |-> Mega(135),
     nri |-> Mega(900000), nrun |-> One, nrun1 |-> One, pdn |-> Milli(26500),
     pi |-> Mega(1650), poli |-> Mega(200), poln |-> One, poln1 |-> One,
     pols |-> Mega(3600), qls |-> One,
     swt1 |-> FromInt(1970), swt2 |-> FromInt(1970), swt3 |-> FromInt(1970),
     swt4 |-> FromInt(1970), swt5 |-> FromInt(1970), swt6 |-> FromInt(1970),
     swt7 |-> FromInt(1970),
     time |-> FromInt(1900), dt |-> Milli(200), endtime |-> FromInt(2100)]

\* a variant of LevelsFromJ: deaths added to the population
LevelsFromJ_pSum(cs, jj) ==
    [p    |-> FAdd(jj.p, FMul(cs.dt, FAdd(jj.br, jj.dr))),
     nr   |-> FAdd(jj.nr, FMul(cs.dt, FNeg(jj.nrur))),
     ci   |-> FAdd(jj.ci, FMul(cs.dt, FSub(jj.cig, jj.cid))),
     pol  |-> FAdd(jj.pol, FMul(cs.dt, FSub(jj.polg, jj.pola))),
     ciaf |-> FAdd(jj.ciaf, FMul(FDiv(cs.dt, cs.ciaft), FSub(FMul(jj.cfifr, jj.ciqr), jj.ciaf))),
     time |-> FAdd(jj.time, cs.dt)]

\* a variant of LevelsFromJ: ciaf stepped by dt, without the adjustment time
LevelsFromJ_ciafNoAdjustment(cs, jj) ==
    [p    |-> FAdd(jj.p, FMul(cs.dt, FSub(jj.br, jj.dr))),
     nr   |-> FAdd(jj.nr, FMul(cs.dt, FNeg(jj.nrur))),
     ci   |-> FAdd(jj.ci, FMul(cs.dt, FSub(jj.cig, jj.cid))),
     pol  |-> FAdd(jj.pol, FMul(cs.dt, FSub(jj.polg, jj.pola))),
     ciaf |-> FAdd(jj.ciaf, FMul(cs.dt, FSub(FMul(jj.cfifr, jj.ciqr), jj.ciaf))),
     time |-> FAdd(jj.time, cs.dt)]

\* a variant of LevelsFromJ: the time is not advanced
LevelsFromJ_timeFrozen(cs, jj) ==
    [p    |-> FAdd(jj.p, FMul(cs.dt, FSub(jj.br, jj.dr))),
     nr   |-> FAdd(jj.nr, FMul(cs.dt, FNeg(jj.nrur))),
     ci   |-> FAdd(jj.ci, FMul(cs.dt, FSub(jj.cig, jj.cid))),
     pol  |-> FAdd(jj.pol, FMul(cs.dt, FSub(jj.polg, jj.pola))),
     ciaf |-> FAdd(jj.ciaf, FMul(FDiv(cs.dt, cs.ciaft), FSub(FMul(jj.cfifr, jj.ciqr), jj.ciaf))),
     time |-> jj.time]

\* levels at time .K integrated from time .J and the .JK rates (time_j_exists_)
LevelsFromJ(cs, jj) ==
    [p    |-> FAdd(jj.p, FMul(cs.dt, FSub(jj.br, jj.dr))),
     nr   |-> FAdd(jj.nr, FMul(cs.dt, FNeg(jj.nrur))),
     ci   |-> FAdd(jj.ci, FMul(cs.dt, FSub(jj.cig, jj.cid))),
     pol  |-> FAdd(jj.pol, FMul(cs.dt, FSub(jj.polg, jj.pola))),
     ciaf |-> FAdd(jj.ciaf, FMul(FDiv(cs.dt, cs.ciaft), FSub(FMul(jj.cfifr, jj.ciqr), jj.ciaf))),
     time |-> FAdd(jj.time, cs.dt)]

\* a variant of LevelsInitial: the first snapshot is one step after the initial time
LevelsInitial_stepped(cs) ==
    [p |-> cs.pi, nr |-> cs.nri, ci |-> cs.cii, pol |-> cs.poli, ciaf |-> cs.ciafi,
     time |-> FAdd(cs.time, cs.dt)]

\* levels set to the initial state (no snapshot yet)
LevelsInitial(cs) ==
    [p |-> cs.pi, nr |-> cs.nri, ci |-> cs.cii, pol |-> cs.poli, ciaf |-> cs.ciafi,
     time |-> cs.time]

\* the local k after the level statements: "variables k;" with the levels assigned
WithLevels(lv) ==
    [ZeroVariables EXCEPT !.p = lv.p, !.nr = lv.nr, !.ci = lv.ci, !.pol = lv.pol,
                          !.ciaf = lv.ciaf, !.time = lv.time]

\* a lookup call of world::tick: the function, the literal table and the domain
LookupCall(fn, t, xstart, xend, xstep) ==
    [fn |-> fn, ytbl |-> MilliSeq(t), xstart |-> Milli(xstart), xend |-> Milli(xend),
     xstep |-> Milli(xstep)]

\* the 22 lookup calls of world::tick, by the field they assign (thousandths)
Lookups ==
    [nrem  |-> LookupCall("table", << 0, 150, 500, 850, 1000 >>, 0, 1000, 250),
     brmm  |-> LookupCall("tabhl", << 1200, 1000, 850, 750, 700, 700 >>, 0, 5000, 1000),
     drmm  |-> LookupCall("tabhl", << 3000, 1800, 1000, 800, 700, 600, 530, 500, 500, 500, 500 >>, 0, 5000, 500),
     drcm  |-> LookupCall("table", << 900, 1000, 1200, 1500, 1900, 3000 >>, 0, 5000, 1000),
     brcm  |-> LookupCall("table", << 1050, 1000, 900, 700, 600, 550 >>, 0, 5000, 1000),
     fcm   |-> LookupCall("table", << 2400, 1000, 600, 400, 300, 200 >>, 0, 5000, 1000),
     qlc   |-> LookupCall("table", << 2000, 1300, 1000, 750, 550, 450, 380, 300, 250, 220, 200 >>, 0, 5000, 500),
     cim   |-> LookupCall("tabhl", << 100, 1000, 1800, 2400, 2800, 3000 >>, 0, 5000, 1000),
     fpm   |-> LookupCall("table", << 1020, 900, 650, 350, 200, 100, 50 >>, 0, 60000, 10000),
     drpm  |-> LookupCall("table", << 920, 1300, 2000, 3200, 4800, 6800, 9200 >>, 0, 60000, 10000),
     brpm  |-> LookupCall("table", << 1020, 900, 700, 400, 250, 150, 100 >>, 0, 60000, 10000),
     polcm |-> LookupCall("tabhl", << 50, 1000, 3000, 5400, 7400, 8000 >>, 0, 5000, 1000),
     polat |-> LookupCall("table", << 600, 2500, 5000, 8000, 11500, 15500, 20000 >>, 0, 60000, 10000),
     qlm   |-> LookupCall("tabhl", << 200, 1000, 1700, 2300, 2700, 2900 >>, 0, 5000, 1000),
     qlp   |-> LookupCall("table", << 1040, 850, 600, 300, 150, 50, 20 >>, 0, 60000, 10000),
     nrmm  |-> LookupCall("tabhl", << 0, 1000, 1800, 2400, 2900, 3300, 3600, 3800, 3900, 3950, 4000 >>, 0, 10000, 1000),
     fpci  |-> LookupCall("tabhl", << 500, 1000, 1400, 1700, 1900, 2050, 2200 >>, 0, 6000, 1000),
     drfm  |-> LookupCall("tabhl", << 30000, 3000, 2000, 1400, 1000, 700, 600, 500, 500 >>, 0, 2000, 250),
     brfm  |-> LookupCall("tabhl", << 0, 1000, 1600, 1900, 2000 >>, 0, 4000, 1000),
     cfifr |-> LookupCall("tabhl", << 1000, 600, 300, 150, 100 >>, 0, 2000, 500),
     qlf   |-> LookupCall("tabhl", << 0, 1000, 1800, 2400, 2700 >>, 0, 4000, 1000),
     ciqr  |-> LookupCall("tabhl", << 700, 800, 1000, 1500, 2000 >>, 0, 2000, 500)]

\* the value of an expression that makes no lookup call
Val(v) == Returns(v)

\* the lookup call of the statement assigning field f, made with argument x
Lookup(bd, tb, f, x) ==
    IF tb[f].fn = "table"
    THEN table(bd, tb[f].ytbl, x, tb[f].xstart, tb[f].xend, tb[f].xstep)
    ELSE tabhl(bd, tb[f].ytbl, x, tb[f].xstart, tb[f].xend, tb[f].xstep)

\* a variant of Statements: ecir is assigned before nrem, which it reads
Statements_ecirEarly ==
    << "nrfr", "cir", "ecir", "nrem", "msl", "brmm", "drmm", "cr", "drcm", "brcm",
       "fcm", "qlc", "cim", "polr", "fpm", "drpm", "brpm", "polcm", "polat", "qlm",
       "qlp", "nrmm", "cira", "fpci", "fr", "drfm", "brfm", "cfifr", "qlf", "ciqr",
       "ql", "br", "nrur", "dr", "cig", "cid", "polg", "pola" >>

\* The assignments of the auxiliary and rate passes of world::tick, in the
\* order of the statements (lines 595-634); each assigns the field it names.
Statements ==
    << "nrfr", "nrem", "cir", "ecir", "msl", "brmm", "drmm", "cr", "drcm", "brcm",
       "fcm", "qlc", "cim", "polr", "fpm", "drpm", "brpm", "polcm", "polat", "qlm",
       "qlp", "nrmm", "cira", "fpci", "fr", "drfm", "brfm", "cfifr", "qlf", "ciqr",
       "ql", "br", "nrur", "dr", "cig", "cid", "polg", "pola" >>

\* The expressions of the statements as syntax trees: a field of the local
\* k, a field of c, the literal 1, a product, quotient or difference, and a
\* call of dynamo::clip.
K(f) == << "k", f >>

C(f) == << "c", f >>

Lit1 == << "1" >>

Times(a, b) == << "*", a, b >>

Over(a, b) == << "/", a, b >>

Minus(a, b) == << "-", a, b >>

Clip(a, b, cc, d) == << "clip", a, b, cc, d >>

\* The expression of the statement assigning field f (lines 595-634): its
\* right-hand side or, where that is a lookup call, the argument x of the
\* call.  Products and quotients associate to the left, as in C++.
Expr(f) ==
    CASE f = "nrfr"  -> Over(K("nr"), C("nri"))
      [] f = "nrem"  -> K("nrfr")
      [] f = "cir"   -> Over(K("ci"), K("p"))
      [] f = "ecir"  -> Over(Times(Times(K("cir"), Minus(Lit1, K("ciaf"))), K("nrem")),
                             Minus(Lit1, C("ciafn")))
      [] f = "msl"   -> Over(K("ecir"), C("ecirn"))
      [] f = "brmm"  -> K("msl")
      [] f = "drmm"  -> K("msl")
      [] f = "cr"    -> Over(K("p"), Times(C("la"), C("pdn")))
      [] f = "drcm"  -> K("cr")
      [] f = "brcm"  -> K("cr")
      [] f = "fcm"   -> K("cr")
      [] f = "qlc"   -> K("cr")
      [] f = "cim"   -> K("msl")
      [] f = "polr"  -> Over(K("pol"), C("pols"))
      [] f = "fpm"   -> K("polr")
      [] f = "drpm"  -> K("polr")
      [] f = "brpm"  -> K("polr")
      [] f = "polcm" -> K("cir")
      [] f = "polat" -> K("polr")
      [] f = "qlm"   -> K("msl")
      [] f = "qlp"   -> K("polr")
      [] f = "nrmm"  -> K("msl")
      [] f = "cira"  -> Over(Times(K("cir"), K("ciaf")), C("ciafn"))
      [] f = "fpci"  -> K("cira")
      [] f = "fr"    -> Over(Times(Times(Times(K("fpci"), K("fcm")), K("fpm")),
                                   Clip(C("fc"), C("fc1"), C("swt7"), K("time"))), C("fn"))
      [] f = "drfm"  -> K("fr")
      [] f = "brfm"  -> K("fr")
      [] f = "cfifr" -> K("fr")
      [] f = "qlf"   -> K("fr")
      [] f = "ciqr"  -> Over(K("qlm"), K("qlf"))
      [] f = "ql"    -> Times(Times(Times(Times(C("qls"), K("qlm")), K("qlc")), K("qlf")), K("qlp"))
      [] f = "br"    -> Times(Times(Times(Times(Times(K("p"),
                            Clip(C("brn"), C("brn1"), C("swt1"), K("time"))),
                            K("brfm")), K("brmm")), K("brcm")), K("brpm"))
      [] f = "nrur"  -> Times(Times(K("p"), Clip(C("nrun"), C("nrun1"), C("swt2"), K("time"))),
                              K("nrmm"))
      [] f = "dr"    -> Times(Times(Times(Times(Times(K("p"),
                            Clip(C("drn"), C("drn1"), C("swt3"), K("time"))),
                            K("drmm")), K("drpm")), K("drfm")), K("drcm"))
      [] f = "cig"   -> Times(Times(K("p"), K("cim")),
                              Clip(C("cign"), C("cign1"), C("swt4"), K("time")))
      [] f = "cid"   -> Times(K("ci"), Clip(C("cidn"), C("cidn1"), C("swt5"), K("time")))
      [] f = "polg"  -> Times(Times(K("p"), Clip(C("poln"), C("poln1"), C("swt6"), K("time"))),
                              K("polcm"))
      [] f = "pola"  -> Over(K("pol"), K("polat"))

\* the double an expression evaluates to, on the local k as it stands
RECURSIVE Value(_, _, _)
Value(e, cs, k) ==
    CASE e[1] = "k"    -> k[e[2]]
      [] e[1] = "c"    -> cs[e[2]]
      [] e[1] = "1"    -> One
      [] e[1] = "*"    -> FMul(Value(e[2], cs, k), Value(e[3], cs, k))
      [] e[1] = "/"    -> FDiv(Value(e[2], cs, k), Value(e[3], cs, k))
      [] e[1] = "-"    -> FSub(Value(e[2], cs, k), Value(e[3], cs, k))
      [] e[1] = "clip" -> clip(Value(e[2], cs, k), Value(e[3], cs, k),
                               Value(e[4], cs, k), Value(e[5], cs, k))

\* The right-hand side of the statement assigning field f, evaluated on the
\* local k as it stands when the statement is reached: its value, or the
\* exception its lookup call throws.
Rhs(bd, tb, f, cs, k) ==
    IF f \in DOMAIN tb THEN Lookup(bd, tb, f, Value(Expr(f), cs, k))
    ELSE Val(Value(Expr(f), cs, k))

\* Statement i, reached with the outcome r of the statements before it: an
\* exception (or fault) has ended the call, otherwise the right-hand side is
\* evaluated on k and, unless it throws, assigned to the field.
Store(r, f, v) ==
    IF v.err # "none" THEN [err |-> v.err, k |-> r.k]
    ELSE [err |-> "none", k |-> [r.k EXCEPT ![f] = v.val]]

Assign(bd, tb, i, cs, r) ==
    IF r.err # "none" THEN r
    ELSE Store(r, Statements[i], Rhs(bd, tb, Statements[i], cs, r.k))

\* statements lo..hi in their order, from the outcome r of those before
RECURSIVE RunRange(_, _, _, _, _, _)
\* statements lo..hi once an exception has ended the call, or else run
Continue(bd, tb, lo, hi, cs, r) ==
    IF r.err # "none" THEN r ELSE RunRange(bd, tb, lo, hi, cs, r)

RunRange(bd, tb, lo, hi, cs, r) ==
    IF lo = hi THEN Assign(bd, tb, lo, cs, r)
    ELSE Continue(bd, tb, ((lo + hi) \div 2) + 1, hi, cs,
                  RunRange(bd, tb, lo, (lo + hi) \div 2, cs, r))

\* the statements from the i-th on, run on the local k
RunFrom(bd, tb, i, cs, k) ==
    IF i > Len(Statements) THEN [err |-> "none", k |-> k]
    ELSE RunRange(bd, tb, i, Len(Statements), cs, [err |-> "none", k |-> k])

\* The auxiliary and rate passes of world::tick: from the levels and time
\* of the local k, the completed k and the exception, if any, that ends
\* the call.  These lines read only k and c.
ComputeK(bd, tb, cs, lv) == RunFrom(bd, tb, 1, cs, WithLevels(lv))

\* a variant of run_complete: the snapshot of a fresh engine counts
run_complete_fresh == FGt(j.time, c.endtime)

\* a variant of run_complete: complete as soon as endtime is reached
run_complete_ge == time_j_exists_ /\ FGe(j.time, c.endtime)

\* world::run_complete
run_complete == time_j_exists_ /\ FGt(j.time, c.endtime)

\* the local k of world::tick and the exception, if any, that ends the call
TickK(bd, tb, cs, jj, exists) ==
    ComputeK(bd, tb, cs, IF exists THEN LevelsFromJ(cs, jj) ELSE LevelsInitial(cs))

\* the levels tick() computes, written into a snapshot
LevelsInto(jj, lv) ==
    [jj EXCEPT !.p = lv.p, !.nr = lv.nr, !.ci = lv.ci, !.pol = lv.pol,
               !.ciaf = lv.ciaf, !.time = lv.time]

Settle_partial(r, cs, jj, exists) ==
    IF r.err = "none" THEN [err |-> "none", j |-> r.k, exists |-> TRUE]
    ELSE [err |-> r.err,
          j |-> LevelsInto(jj, IF exists THEN LevelsFromJ(cs, jj) ELSE LevelsInitial(cs)),
          exists |-> exists]

Settle_inPlace(r, cs, jj, exists) ==
    IF r.err = "none" THEN [err |-> "none", j |-> r.k, exists |-> TRUE]
                      ELSE [err |-> r.err, j |-> r.k, exists |-> exists]

Settle_stepsTime(r, cs, jj, exists) ==
    IF r.err = "none" THEN [err |-> "none", j |-> r.k, exists |-> TRUE]
    ELSE [err |-> r.err, j |-> [jj EXCEPT !.time = FAdd(@, cs.dt)], exists |-> exists]

Settle_forgets(r, cs, jj, exists) ==
    IF r.err = "none" THEN [err |-> "none", j |-> r.k, exists |-> TRUE]
                      ELSE [err |-> r.err, j |-> jj, exists |-> FALSE]

\* the end of world::tick, the local k being r.k: "j = k; time_j_exists_ =
\* true" unless an exception has left the call before
Settle(r, cs, jj, exists) ==
    IF r.err = "none" THEN [err |-> "none", j |-> r.k, exists |-> TRUE]
                      ELSE [err |-> r.err, j |-> jj, exists |-> exists]

\* a variant of AfterTick: tick() writes the levels into j itself, so that
\* an exception leaves them stepped
AfterTick_partial(bd, tb, cs, jj, exists) == Settle_partial(TickK(bd, tb, cs, jj, exists), cs, jj, exists)

\* a variant of AfterTick: k is no local but j itself, left half computed
\* by an exception
AfterTick_inPlace(bd, tb, cs, jj, exists) == Settle_inPlace(TickK(bd, tb, cs, jj, exists), cs, jj, exists)

\* a variant of AfterTick: the time is stepped before the lookups, in j
AfterTick_stepsTime(bd, tb, cs, jj, exists) == Settle_stepsTime(TickK(bd, tb, cs, jj, exists), cs, jj, exists)

\* a variant of AfterTick: an exception resets the engine to a fresh one
AfterTick_forgets(bd, tb, cs, jj, exists) == Settle_forgets(TickK(bd, tb, cs, jj, exists), cs, jj, exists)

\* The engine after a call of tick(): an exception leaves the call before
\* "j = k; time_j_exists_ = true", k being a local.
AfterTick(bd, tb, cs, jj, exists) == Settle(TickK(bd, tb, cs, jj, exists), cs, jj, exists)
-----------------------------------------------------------------------------
(* Parameter sets the engine is constructed with.  Literals are the doubles
   a C++ compiler makes of them: Milli(200) is 0.2, Mega(1650) is 1.65E9. *)

MaxCalls == 7

D == DefaultConstants

\* the decimal literal m E e: the double nearest to m * 10^e
Dec(m, e) ==
    IF e < 0 THEN FDiv(FromInt(m), FromInt(10 ^ (0 - e)))
             ELSE FMul(FromInt(m), FromInt(10 ^ e))

\* the parameter set d with the members named in ch set: ch is a sequence of
\* << member, m, e >>, for "member = m E e"
RECURSIVE Changed(_, _)
Changed(d, ch) ==
    IF ch = << >> THEN d
    ELSE Changed([d EXCEPT ![ch[1][1]] = Dec(ch[1][2], ch[1][3])], Tail(ch))

\* 2^-45, a step so small that 1900 + dt rounds back to 1900
TinyStep == Num(0, -97, << 0, 0, 0, 1024 >>)

\* changes to the default parameter set on which no operation with
\* undefined behaviour is reached
DefinedChanges ==
    { \* the run ends inside the horizon; a snapshot falls exactly on endtime
      << << "dt", 25, -2 >>, << "endtime", 190075, -2 >> >>,
      \* endtime before the initial time, and negative
      << << "endtime", 1899, 0 >> >>,
      << << "endtime", -1, 0 >> >>,
      \* the default run (not complete inside the horizon)
      << >>,
      \* the step 0.2 with endtime and a switch on the decimal grid: the sum
      \* 1900 + 0.2 + 0.2 + 0.2 is 1900.6000000000001, above the literal 1900.6
      << << "endtime", 19006, -1 >>, << "swt2", 19006, -1 >>, << "nrun1", 25, -2 >> >>,
      \* another step; policy switches inside the horizon
      << << "dt", 5, -1 >>, << "endtime", 1902, 0 >>, << "swt1", 19005, -1 >>,
         << "brn1", 3, -2 >>, << "swt3", 1901, 0 >>, << "drn1", 2, -2 >>,
         << "swt7", 19005, -1 >>, << "fc1", 8, -1 >> >>,
      \* every policy changes, at one of two switch times
      << << "dt", 5, -1 >>, << "endtime", 19015, -1 >>,
         << "swt1", 19005, -1 >>, << "brn1", 3, -2 >>,
         << "swt2", 1901, 0 >>, << "nrun1", 25, -2 >>,
         << "swt3", 19005, -1 >>, << "drn1", 2, -2 >>,
         << "swt4", 1901, 0 >>, << "cign1", 3, -2 >>,
         << "swt5", 19005, -1 >>, << "cidn1", 5, -2 >>,
         << "swt6", 1901, 0 >>, << "poln1", 5, -1 >> >>,
      \* crowding ratio p / (la * pdn) exactly 5, and above 5 by 3E-6
      << << "pi", 178875, 5 >>, << "endtime", 19005, -1 >> >>,
      << << "pi", 1788751, 4 >>, << "endtime", 19005, -1 >> >>,
      \* pollution ratio pol / pols exactly 60, and above 60 by 3E-6
      << << "poli", 216, 9 >>, << "endtime", 19005, -1 >> >>,
      << << "poli", 21600001, 4 >>, << "endtime", 19005, -1 >> >>,
      \* natural resources run out during the run
      << << "nri", 2, 8 >>, << "dt", 5, -1 >>, << "endtime", 1901, 0 >> >>,
      \* the same, with the run complete before the resources run out
      << << "nri", 2, 8 >>, << "dt", 5, -1 >>, << "endtime", 18995, -1 >> >>,
      \* a fast capital-in-agriculture adjustment
      << << "ciaft", 1, 0 >>, << "ciafi", 6, -1 >>, << "endtime", 19005, -1 >> >>,
      \* capital and food far above the domains of the clamped lookups
      << << "cii", 20, 9 >>, << "fc", 3, 0 >>, << "endtime", 19005, -1 >> >>,
      \* little food: the quality ratio qlm / qlf above its table
      << << "fc", 1, -1 >>, << "endtime", 19005, -1 >> >>,
      \* no food: fr = 0, qlf = 0 and qlm / qlf is infinite
      << << "fc", 0, 0 >>, << "endtime", 19005, -1 >> >>,
      \* a negative step: time runs backward from beyond endtime
      \* (no resource usage, which would take nr above nri)
      << << "dt", -5, -1 >>, << "endtime", 189975, -2 >>, << "nrun", 0, 0 >>,
         << "nrun1", 0, 0 >> >> }

\* Changes that reach an operation with undefined behaviour: a NaN (0 / 0)
\* is the argument of a lookup, passes every comparison of table and tabhl
\* and is converted to size_t.
UndefinedChanges ==
    { \* no people and no capital: cir = ci / p is 0 / 0
      << << "pi", 0, 0 >>, << "cii", 0, 0 >>, << "endtime", 19005, -1 >> >>,
      \* no resources: nrfr = nr / nri is 0 / 0
      << << "nri", 0, 0 >>, << "endtime", 19005, -1 >> >> }

\* the parameter sets made of d: d changed, and d with a step that the
\* addition j.time + c.dt rounds away
SetsOf(d, changes) == { Changed(d, ch) : ch \in changes }

DefinedSetsOf(d) ==
    SetsOf(d, DefinedChanges) \cup { Changed([d EXCEPT !.dt = TinyStep], << << "endtime", 19005, -1 >> >>) }

DefinedSets == DefinedSetsOf(D)

UndefinedSets == SetsOf(D, UndefinedChanges)

ParamSets == DefinedSets \cup UndefinedSets

\* The engines checked: every build where undefined behaviour is reached,
\* one build where it is not (all builds then behave alike).
Engines == (DefinedSets \X { BuildX86 }) \cup (UndefinedSets \X Builds)

-----------------------------------------------------------------------------
(* The engine as a state machine *)

NoLookup == [ytbl |-> << >>, x |-> Zero0, xstart |-> Zero0, xend |-> Zero0, xstep |-> Zero0]

NoResult == [fn |-> "none", err |-> "none", val |-> Zero0]

\* world::world(const constants &)
Init ==
    /\ \E e \in Engines : c = e[1] /\ build = e[2]
    /\ tables = Lookups
    /\ j = ZeroVariables
    /\ time_j_exists_ = FALSE
    /\ calls = 0
    /\ nok = 0
    /\ last = "none"
    /\ before = [j |-> ZeroVariables, exists |-> FALSE]
    /\ ret = ZeroVariables
    /\ rc = "none"
    /\ held = [n |-> 0, seen |-> ZeroVariables]
    /\ lk = NoLookup
    /\ lkOut = NoResult
    /\ samples = << >>

\* the end of a call of tick(), a being what AfterTick says of it: the call
\* returns a reference to j, or an exception or a fault ends it
Outcome(a) ==
    /\ j' = a.j
    /\ time_j_exists_' = a.exists
    /\ last' = (IF a.err = "none" THEN "ok" ELSE a.err)
    /\ ret' = (IF a.err = "none" THEN a.j ELSE ret)
    /\ nok' = (IF a.err = "none" THEN nok + 1 ELSE nok)

\* a call of tick(); after a fault the process has stopped
Tick ==
    /\ calls < MaxCalls
    /\ last # "fault"
    /\ Outcome(AfterTick(build, tables, c, j, time_j_exists_))
    /\ calls' = calls + 1
    /\ before' = [j |-> j, exists |-> time_j_exists_]
    /\ rc' = "none"
    /\ UNCHANGED << c, tables, build, held, lk, lkOut, samples >>

\* a call of run_complete(); rc is its answer until the next tick()
RunComplete ==
    /\ last # "fault"
    /\ rc = "none"
    /\ rc' = (IF run_complete THEN "true" ELSE "false")
    /\ UNCHANGED << c, j, time_j_exists_, tables, build, calls, nok, last, before, ret, held,
                    lk, lkOut, samples >>

\* what is read through the reference tick() returned ("return j;")
Deref == j

\* the caller keeps the reference tick() has just returned and notes what it shows
Hold ==
    /\ last = "ok"
    /\ held.n = 0
    /\ held' = [n |-> nok, seen |-> Deref]
    /\ UNCHANGED << c, j, time_j_exists_, tables, build, calls, nok, last, before, ret, rc,
                    lk, lkOut, samples >>

Next == Tick \/ RunComplete \/ Hold

Spec == Init /\ [][Next]_vars

-----------------------------------------------------------------------------
(* The lookup functions called on their own *)

MaxLen == 3

\* table entries, in thousandths
LkValues == { -1000, 1000, 2000 }

\* the tables of up to MaxLen entries, the empty one among them
LkTables == { MilliSeq(t) : t \in UNION { [1..n -> LkValues] : n \in 0..MaxLen } }

\* << xstart, xend, xstep >> in thousandths: ascending and descending
\* domains, one of a single point, two whose span is not a whole number of
\* steps, three with decimal steps (0.3 / 0.1 is 2.9999999999999996 in
\* doubles), steps of the wrong sign and of 0, and two domains too long for
\* any table: 0 .. 2^40 and 0 .. 2^64 - 2048 in steps of 1
LkDomains ==
    { << Zero0, FMul(FromInt(1048576), FromInt(1048576)), One >>,
      << Zero0, FSub(TwoTo64, FromInt(2048)), One >> } \cup
    { MilliSeq(d) : d \in
        { << 0, 2000, 1000 >>, << 2000, 0, -1000 >>,
          << 3000, 4000, 1000 >>, << 4000, 3000, -1000 >>,
          << -500, 500, 1000 >>, << 500, -500, -1000 >>,
          << 0, 1000, 500 >>, << 1000, 1000, 1000 >>,
          << 0, 1750, 1000 >>, << 1250, 0, -500 >>,
          << 0, 300, 100 >>, << -900, -700, 100 >>, << 300, 0, -100 >>,
          << 0, 2000, -1000 >>, << 0, 500, -1000 >>, << 0, 1000, 0 >>, << 1000, 1000, 0 >> } }

\* arguments x: numbers in thousandths, +infinity and NaN
LkXs ==
    { Milli(x) : x \in { -1000, -800, -500, 0, 100, 200, 250, 300, 500, 1000, 1250, 1500,
                         1750, 2000, 3000, 3500, 3750, 4000, 5000 } }
    \cup { Inf(0), NaN }

\* the calls of test() on the table t3 (qlp of the model) over 0..60 step 10
T3 == MilliSeq(<< 1040, 850, 600, 300, 150, 50, 20 >>)

LkExamples ==
    { [ytbl |-> T3, x |-> Milli(x), xstart |-> Zero0, xend |-> Milli(60000),
       xstep |-> Milli(10000)] :
        x \in { 0, 1000, 5000, 10000, 20000, 25000, 30000, 35000, 40000, 50000, 59000, 60000 } }

LkCall(t, d, x) == [ytbl |-> t, x |-> x, xstart |-> d[1], xend |-> d[2], xstep |-> d[3]]

\* a lookup call about to be made, on some build
InitLookup ==
    /\ c = D
    /\ tables = Lookups
    /\ build \in Builds
    /\ j = ZeroVariables
    /\ time_j_exists_ = FALSE
    /\ calls = 0
    /\ nok = 0
    /\ last = "none"
    /\ before = [j |-> ZeroVariables, exists |-> FALSE]
    /\ ret = ZeroVariables
    /\ rc = "none"
    /\ held = [n |-> 0, seen |-> ZeroVariables]
    /\ \/ \E t \in LkTables, d \in LkDomains, x \in LkXs : lk = LkCall(t, d, x)
       \/ lk \in LkExamples
    /\ lkOut = NoResult
    /\ samples = << >>

\* the call fn has ended as r says
Called(fn, r) == lkOut' = [fn |-> fn, err |-> r.err, val |-> r.val]

CallTabhl ==
    /\ lkOut.fn = "none"
    /\ Called("tabhl", tabhl(build, lk.ytbl, lk.x, lk.xstart, lk.xend, lk.xstep))
    /\ UNCHANGED << engineVars, lk >>

CallTable ==
    /\ lkOut.fn = "none"
    /\ Called("table", table(build, lk.ytbl, lk.x, lk.xstart, lk.xend, lk.xstep))
    /\ UNCHANGED << engineVars, lk >>

NextLookup == CallTabhl \/ CallTable

SpecLookup == InitLookup /\ [][NextLookup]_vars

-----------------------------------------------------------------------------
(* The driving loop of graph::run and of test():
     for (size_t tick = 0; !w.run_complete(); ++tick) {
         const world::variables & vars = w.tick();
         if (tick % 20 == 0) { ... calc_y(vars.p, ...) ... ++x; }
     }
   calls is the loop variable tick, Len(samples) the index x of test(). *)

\* graph::default_graph_width
default_graph_width == 60

\* the loop samples the ticks whose index is a multiple of this
SampleInterval == 20

\* a variant of calc_y: the position is cut off, not rounded
calc_y_truncated(bd, value, scale_lo, scale_hi, num_divisions) ==
    IntPart(FMul(FDiv(FSub(value, scale_lo), FSub(scale_hi, scale_lo)), FromInt(num_divisions)))

\* graph::calc_y
calc_y(bd, value, scale_lo, scale_hi, num_divisions) ==
    RoundToInt(bd, FMul(FDiv(FSub(value, scale_lo), FSub(scale_hi, scale_lo)),
                        FromInt(num_divisions)))

\* the upper ends of the two scales of test(): 8e9 and 40
PScale == Mega(8000)

PolrScale == FromInt(40)

\* what the loop of test() computes from the snapshot of a sampled tick
Sample(bd, tick, v) ==
    [tick   |-> tick,
     time   |-> v.time,
     p_y    |-> calc_y(bd, v.p, Zero0, PScale, default_graph_width),
     polr_y |-> calc_y(bd, v.polr, Zero0, PolrScale, default_graph_width)]

\* a variant of Sampled: the ticks before a multiple of 20
Sampled_after(tick) == (tick + 1) % SampleInterval = 0

\* "if (tick % 20 == 0)"
Sampled(tick) == tick % SampleInterval = 0

\* bound on the calls of tick() in one run of the loop
MaxRunCalls == 1010

\* the parameter sets the loop is run with, as changes to the default set
RunChanges ==
    { \* the default run of test() and of graph::run
      << >>,
      \* sums without rounding: a snapshot falls exactly on endtime
      << << "dt", 25, -2 >>, << "endtime", 190075, -2 >> >>,
      \* steps on the decimal grid: 1900 + 0.4 + 0.4 + 0.4 is
      \* 1901.2000000000003, above the literal 1901.2
      << << "dt", 4, -1 >>, << "endtime", 19012, -1 >> >>,
      << << "endtime", 19006, -1 >>, << "swt2", 19006, -1 >>, << "nrun1", 25, -2 >> >>,
      \* endtime is the initial time, before it, and negative
      << << "endtime", 1900, 0 >> >>,
      << << "endtime", 1899, 0 >> >>,
      << << "endtime", -1, 0 >> >>,
      \* a longer step: the second sample is the last
      << << "dt", 5, -1 >>, << "endtime", 1915, 0 >> >>,
      \* a step of 2: the third tick fails
      << << "dt", 2, 0 >>, << "endtime", 1950, 0 >> >>,
      \* the first tick fails (crowding ratio beyond its table)
      << << "pi", 1788751, 4 >>, << "endtime", 19005, -1 >> >>,
      \* the second tick fails (natural resources run out)
      << << "nri", 2, 8 >>, << "dt", 5, -1 >>, << "endtime", 1910, 0 >> >> }

\* the runs, among them one whose step is positive and too small to change
\* the time: 1900 + 2^-45 is 1900 in doubles
RunParamSets == SetsOf(D, RunChanges) \cup { [D EXCEPT !.dt = TinyStep] }

\* an engine constructed, the loop about to start
InitRun ==
    /\ c \in RunParamSets
    /\ build = BuildX86
    /\ tables = Lookups
    /\ j = ZeroVariables
    /\ time_j_exists_ = FALSE
    /\ calls = 0
    /\ nok = 0
    /\ last = "none"
    /\ before = [j |-> ZeroVariables, exists |-> FALSE]
    /\ ret = ZeroVariables
    /\ rc = "none"
    /\ held = [n |-> 0, seen |-> ZeroVariables]
    /\ lk = NoLookup
    /\ lkOut = NoResult
    /\ samples = << >>

\* the body of the loop, a being what AfterTick says of the call of tick():
\* an exception leaves the loop, a snapshot returned is sampled
LoopBody(a) ==
    /\ Outcome(a)
    /\ samples' = IF a.err = "none" /\ Sampled(calls)
                  THEN Append(samples, Sample(build, calls, a.j))
                  ELSE samples

\* the loop's condition holds: one iteration
LoopTick ==
    /\ last \in { "none", "ok" }
    /\ ~run_complete
    /\ calls < MaxRunCalls
    /\ LoopBody(AfterTick(build, tables, c, j, time_j_exists_))
    /\ calls' = calls + 1
    /\ before' = [j |-> j, exists |-> time_j_exists_]
    /\ UNCHANGED << c, tables, build, rc, held, lk, lkOut >>

\* run_complete() answers true: the loop ends
LoopEnd ==
    /\ last \in { "none", "ok" }
    /\ run_complete
    /\ rc = "none"
    /\ rc' = "true"
    /\ UNCHANGED << c, j, time_j_exists_, tables, build, calls, nok, last, before, ret, held,
                    lk, lkOut, samples >>

NextRun == LoopTick \/ LoopEnd

SpecRun == InitRun /\ [][NextRun]_vars

-----------------------------------------------------------------------------
(* Properties of the engine, checked under Spec *)

\* C1: run_complete() is true if and only if at least one tick() has
\* succeeded and the time of the stored snapshot (the one the latest
\* successful tick() returned) is strictly greater than endtime; so it is
\* false on a fresh engine whatever endtime is, false while the stored time
\* equals endtime, and an answer "true" comes only after tick() has
\* returned a snapshot whose time exceeds endtime.
C1_RunCompleteIff ==
    /\ run_complete <=> (nok >= 1 /\ FGt(ret.time, c.endtime))
    /\ nok = 0 => ~run_complete
    /\ (nok >= 1 /\ FEq(j.time, c.endtime)) => ~run_complete
    /\ rc = "true" => nok >= 1 /\ FGt(ret.time, c.endtime)
    /\ rc = "false" => (nok = 0 \/ FLe(ret.time, c.endtime))

\* run_complete() has answered true right after the first snapshot beyond
\* endtime was returned, the snapshot before it lying exactly on endtime
C1_Witness ==
    /\ rc = "true"
    /\ last = "ok"
    /\ before.exists
    /\ before.j.time = c.endtime

\* C2: the first tick() returns the five levels equal to the initial
\* constants, with no Euler step, at time equal to the initial time, and
\* auxiliaries and rates computed from those levels.
C2_FirstTickLevels ==
    (last = "ok" /\ nok = 1) =>
        /\ ret.p = c.pi /\ ret.nr = c.nri /\ ret.ci = c.cii
        /\ ret.pol = c.poli /\ ret.ciaf = c.ciafi
        /\ ret.time = c.time
        /\ ret.nrfr = FDiv(c.nri, c.nri)
        /\ ret.cir = FDiv(c.cii, c.pi)
        /\ ret.cr = FDiv(c.pi, FMul(c.la, c.pdn))
        /\ ret.polr = FDiv(c.poli, c.pols)
        /\ ret.cira = FDiv(FMul(ret.cir, c.ciafi), c.ciafn)
        /\ ret.cid = FMul(c.cii, clip(c.cidn, c.cidn1, c.swt5, c.time))
        /\ ret.pola = FDiv(c.poli, ret.polat)

C2_Witness ==
    /\ last = "ok" /\ nok = 1
    /\ ret.p = c.pi /\ ret.time = c.time
    /\ FGt(ret.br, Zero0) /\ FGt(ret.dr, Zero0) /\ ret.br # ret.dr

\* C3: on every tick() after the first, each of p, nr, ci and pol is the
\* previous snapshot's level plus dt times the previous snapshot's net
\* flow, the rates being those stored in the previous snapshot.
C3_EulerStep ==
    (last = "ok" /\ nok >= 2) =>
        /\ ret.p = FAdd(before.j.p, FMul(c.dt, FSub(before.j.br, before.j.dr)))
        /\ ret.nr = FAdd(before.j.nr, FMul(c.dt, FNeg(before.j.nrur)))
        /\ ret.ci = FAdd(before.j.ci, FMul(c.dt, FSub(before.j.cig, before.j.cid)))
        /\ ret.pol = FAdd(before.j.pol, FMul(c.dt, FSub(before.j.polg, before.j.pola)))

\* a later tick whose own rates differ from the previous snapshot's, so
\* that stepping with the rates of the current tick would give another p
C3_Witness ==
    /\ last = "ok" /\ nok >= 2
    /\ ret.p # before.j.p
    /\ FAdd(before.j.p, FMul(c.dt, FSub(ret.br, ret.dr))) # ret.p

\* the two lookups of tick() that feed the capital-investment-in-agriculture level
CfifrOf(v) ==
    tabhl(build, MilliSeq(<< 1000, 600, 300, 150, 100 >>), v.fr, Zero0, FromInt(2), Milli(500)).val

CiqrOf(v) ==
    tabhl(build, MilliSeq(<< 700, 800, 1000, 1500, 2000 >>), FDiv(v.qlm, v.qlf), Zero0,
          FromInt(2), Milli(500)).val

\* C4: on every tick() after the first, ciaf is the previous ciaf plus
\* (dt / ciaft) * (cfifr * ciqr - ciaf) with cfifr and ciqr as stored in
\* the previous snapshot; the other auxiliaries and the rates of a
\* snapshot are computed from values of that same snapshot.
C4_CiafLag ==
    /\ (last = "ok" /\ nok >= 2) =>
          ret.ciaf = FAdd(before.j.ciaf,
                          FMul(FDiv(c.dt, c.ciaft),
                               FSub(FMul(before.j.cfifr, before.j.ciqr), before.j.ciaf)))
    /\ nok >= 1 =>
          /\ ret.nrfr = FDiv(ret.nr, c.nri)
          /\ ret.cir = FDiv(ret.ci, ret.p)
          /\ ret.ecir = FDiv(FMul(FMul(ret.cir, FSub(One, ret.ciaf)), ret.nrem),
                             FSub(One, c.ciafn))
          /\ ret.msl = FDiv(ret.ecir, c.ecirn)
          /\ ret.cr = FDiv(ret.p, FMul(c.la, c.pdn))
          /\ ret.polr = FDiv(ret.pol, c.pols)
          /\ ret.cira = FDiv(FMul(ret.cir, ret.ciaf), c.ciafn)
          /\ ret.fr = FDiv(FMul(FMul(FMul(ret.fpci, ret.fcm), ret.fpm),
                                clip(c.fc, c.fc1, c.swt7, ret.time)), c.fn)
          /\ ret.ql = FMul(FMul(FMul(FMul(c.qls, ret.qlm), ret.qlc), ret.qlf), ret.qlp)
          /\ ret.cfifr = CfifrOf(ret)
          /\ ret.ciqr = CiqrOf(ret)
          /\ ret.pola = FDiv(ret.pol, ret.polat)

\* a later tick on which the lagged and the same-tick products differ
\* and lead to different values of ciaf
C4_Witness ==
    /\ last = "ok" /\ nok >= 2
    /\ ret.ciaf # before.j.ciaf
    /\ ret.ciaf # FAdd(before.j.ciaf,
                       FMul(FDiv(c.dt, c.ciaft),
                            FSub(FMul(ret.cfifr, ret.ciqr), before.j.ciaf)))

\* the time the claim gives the n-th successful tick(): initial time + (n-1)*dt
TimeOfTick(n) == FAdd(c.time, FMul(FromInt(n - 1), c.dt))

\* C5 as stated: the n-th successful tick() returns time = initial time +
\* (n-1)*dt, each successful tick after the first advancing the time
\* strictly, and a failed tick does not advance the time.
C5_Time ==
    /\ last = "ok" => ret.time = TimeOfTick(nok)
    /\ (last = "ok" /\ nok >= 2 /\ FGt(c.dt, Zero0)) => FGt(ret.time, before.j.time)
    /\ last \in {"range", "size"} => j.time = before.j.time

\* C5, amended: the first successful tick() returns the initial time and
\* each later one the double nearest to the previous snapshot's time plus
\* dt, so that the time never decreases for dt > 0 and increases strictly
\* whenever that sum is not rounded back to the previous time; the n-th time
\* is this repeated rounded sum, not initial time + (n-1)*dt.  A failed
\* tick does not advance the time.
C5_TimeStep ==
    /\ (last = "ok" /\ nok = 1) => ret.time = c.time
    /\ (last = "ok" /\ nok >= 2) =>
          /\ ret.time = FAdd(before.j.time, c.dt)
          /\ FGt(c.dt, Zero0) => FGe(ret.time, before.j.time)
          /\ (FGt(c.dt, Zero0) /\ FAdd(before.j.time, c.dt) # before.j.time) =>
                FGt(ret.time, before.j.time)
    /\ last \in {"range", "size"} => j.time = before.j.time

\* four ticks of 0.2 from 1900 have reached 1900.6000000000001, one place
\* above 1900 + 3 * 0.2
C5_Witness ==
    /\ last = "ok" /\ nok = 4
    /\ c.dt = Milli(200)
    /\ ret.time = FAdd(before.j.time, c.dt)
    /\ FGt(ret.time, TimeOfTick(4))

\* a step too small to move the time
C5_WitnessStuck ==
    /\ last = "ok" /\ nok >= 2
    /\ FGt(c.dt, Zero0)
    /\ ret.time = before.j.time

\* C6: a tick() that fails with a lookup error leaves the stored snapshot
\* and the has-prior-snapshot flag as they were, so run_complete() answers
\* as before the call and a failure of the very first tick leaves the
\* engine without a prior snapshot.
C6_FailureLeavesState ==
    last \in {"range", "size"} =>
        /\ j = before.j
        /\ time_j_exists_ = before.exists
        /\ run_complete <=> (before.exists /\ FGt(before.j.time, c.endtime))
        /\ nok = 0 => ~time_j_exists_ /\ j = ZeroVariables

\* a failure after a successful tick, on an engine whose run is complete
C6_Witness ==
    /\ last = "range"
    /\ nok >= 1
    /\ j = before.j /\ j.time = c.time
    /\ rc = "true"

\* C7 as stated: what is read through the result of the n-th tick() is,
\* after any later calls, what it was when the result was returned.
C7_Immutable == held.n > 0 => Deref = held.seen

\* C7, amended: the result of tick() is a reference to the engine's stored
\* snapshot.  What is read through it is what the n-th tick() returned as
\* long as no later tick() has succeeded (failed calls leave it as it was),
\* and after a later successful tick() it is the snapshot that tick returned.
C7_ReferenceToStored ==
    held.n > 0 =>
        /\ nok = held.n => Deref = held.seen
        /\ Deref = ret
        /\ (nok = held.n + 1 /\ last = "ok") => held.seen = before.j

\* a kept result showing another snapshot after a later successful tick
C7_Witness ==
    /\ held.n > 0 /\ nok > held.n
    /\ Deref # held.seen
    /\ Deref = ret

\* a kept result unchanged by a failed tick
C7_WitnessFailed ==
    /\ held.n > 0 /\ nok = held.n /\ last = "range"
    /\ Deref = held.seen

-----------------------------------------------------------------------------
(* Equality of doubles as the tests of the repository take it:
     if (!(std::fabs(actual_value - expected_value) < DBL_EPSILON)) fault *)

\* std::fabs
FAbs(a) == IF IsNaN(a) THEN a ELSE [a EXCEPT !.s = 0]

\* DBL_EPSILON, 2^-52
DblEpsilon == Num(0, -104, << 0, 0, 0, 1024 >>)

\* test_equal_double finds no fault
Near(actual_value, expected_value) ==
    FLt(FAbs(FSub(actual_value, expected_value)), DblEpsilon)

-----------------------------------------------------------------------------
(* Properties of the lookup functions, checked under SpecLookup *)

\* the table length the call requires: trunc((xend - xstart) / xstep + 1)
LkLength == ToSize(build, FAdd(FDiv(FSub(lk.xend, lk.xstart), lk.xstep), One))

\* the table length by rounding: round((xend - xstart) / xstep) + 1
LkRoundedLength == RoundToInt(build, FDiv(FSub(lk.xend, lk.xstart), lk.xstep)) + 1

\* the table passes the size check of tabhl: it has the required length
LkSized == Len(lk.ytbl) = LkLength

\* the table has an entry
LkNonEmpty == Len(lk.ytbl) > 0

\* the conversion of (xend - xstart) / xstep + 1 to size_t is defined: the
\* double is a number above -1 and below 2^64
LkLengthDefined ==
    /\ FGt(FAdd(FDiv(FSub(lk.xend, lk.xstart), lk.xstep), One), FNeg(One))
    /\ FLt(FAdd(FDiv(FSub(lk.xend, lk.xstart), lk.xstep), One), TwoTo64)

LkAscending == FLt(lk.xstart, lk.xend)

LkDescending == FGt(lk.xstart, lk.xend)

LkMin == IF FLt(lk.xstart, lk.xend) THEN lk.xstart ELSE lk.xend

LkMax == IF FLt(lk.xstart, lk.xend) THEN lk.xend ELSE lk.xstart

LkOutside == FLt(lk.x, LkMin) \/ FGt(lk.x, LkMax)

LkInside == FGe(lk.x, LkMin) /\ FLe(lk.x, LkMax)

\* C8 as stated: tabhl with a correctly sized table does not fail and, for
\* x outside the domain, returns the entry of the exceeded end, which the
\* table therefore has: ascending, the first entry below xstart and the
\* last above xend; descending, the last entry below xend and the first
\* above xstart.  (Stated for the calls whose required length is a defined
\* conversion, where every build computes the same length.)
C8_TabhlClampsAnySize ==
    (lkOut.fn = "tabhl" /\ LkLengthDefined /\ LkSized /\ LkOutside) =>
        /\ lkOut.err = "none"
        /\ Len(lk.ytbl) > 0
        /\ (LkAscending /\ FLt(lk.x, lk.xstart)) => lkOut.val = lk.ytbl[1]
        /\ (LkAscending /\ FGt(lk.x, lk.xend)) => lkOut.val = lk.ytbl[Len(lk.ytbl)]
        /\ (LkDescending /\ FLt(lk.x, lk.xend)) => lkOut.val = lk.ytbl[Len(lk.ytbl)]
        /\ (LkDescending /\ FGt(lk.x, lk.xstart)) => lkOut.val = lk.ytbl[1]

\* C8, amended: tabhl with a correctly sized table of at least one entry
\* does not fail and, for x outside the domain, returns the entry of the
\* exceeded end: ascending, the first entry below xstart and the last above
\* xend; descending, the last entry below xend and the first above xstart.
\* An empty table is correctly sized where (xend - xstart) / xstep + 1
\* truncates to 0 (0 .. 0.5 step -1); tabhl then passes the size check and
\* reads ytbl[0] or ytbl.back() of an empty vector, which is undefined.
C8_TabhlClamps ==
    (lkOut.fn = "tabhl" /\ LkSized /\ LkNonEmpty /\ LkOutside) =>
        /\ lkOut.err = "none"
        /\ (LkAscending /\ FLt(lk.x, lk.xstart)) => lkOut.val = lk.ytbl[1]
        /\ (LkAscending /\ FGt(lk.x, lk.xend)) => lkOut.val = lk.ytbl[Len(lk.ytbl)]
        /\ (LkDescending /\ FLt(lk.x, lk.xend)) => lkOut.val = lk.ytbl[Len(lk.ytbl)]
        /\ (LkDescending /\ FGt(lk.x, lk.xstart)) => lkOut.val = lk.ytbl[1]

\* a descending domain left below xend: the last entry, which is not the first
C8_Witness ==
    /\ lkOut.fn = "tabhl" /\ LkSized /\ LkNonEmpty
    /\ LkDescending /\ FLt(lk.x, lk.xend)
    /\ lkOut.err = "none"
    /\ lkOut.val = lk.ytbl[Len(lk.ytbl)]
    /\ lk.ytbl[1] # lk.ytbl[Len(lk.ytbl)]

\* an ascending domain left for +infinity: the last entry
C8_WitnessFar ==
    /\ lkOut.fn = "tabhl" /\ LkSized /\ LkNonEmpty
    /\ LkAscending /\ lk.x = Inf(0)
    /\ lkOut.val = lk.ytbl[Len(lk.ytbl)]
    /\ lk.ytbl[1] # lk.ytbl[Len(lk.ytbl)]

\* the empty table over 0 .. 0.5 step -1 has passed the size check and
\* tabhl, called with x below the domain, has read its first entry
C8_WitnessEmpty ==
    /\ lkOut.fn = "tabhl" /\ LkLengthDefined /\ LkSized
    /\ Len(lk.ytbl) = 0 /\ LkLength = 0
    /\ lk.xend = Milli(500) /\ lk.xstep = FNeg(One)
    /\ LkAscending /\ FLt(lk.x, lk.xstart)
    /\ ~InTable(lk.ytbl, 0)
    /\ lkOut.err = "none" /\ lkOut.val = build.wild

\* C9: table fails with the range error exactly when x lies strictly
\* outside [min(xstart, xend), max(xstart, xend)], in either direction;
\* at an endpoint or inside it does not.
C9_TableRangeError ==
    lkOut.fn = "table" =>
        /\ lkOut.err = "range" <=> LkOutside
        /\ LkInside => lkOut.err # "range"

\* a descending domain left above xstart
C9_Witness ==
    /\ lkOut.fn = "table"
    /\ LkDescending /\ FGt(lk.x, lk.xstart)
    /\ lkOut.err = "range"

\* an endpoint of a descending domain: no range error
C9_WitnessEndpoint ==
    /\ lkOut.fn = "table"
    /\ LkDescending /\ lk.x = lk.xend
    /\ lkOut.err = "none"

\* C10 as stated: for tabhl and for table and for every x, a table whose
\* length is not round((xend - xstart) / xstep) + 1 fails with the size error.
C10_SizeErrorAlways ==
    (lkOut.fn # "none" /\ Len(lk.ytbl) # LkRoundedLength) => lkOut.err = "size"

\* C10, amended: the required length is trunc((xend - xstart) / xstep + 1),
\* the quotient and the sum being those of doubles.  tabhl fails with the
\* size error for every x, inside or outside the domain, exactly when the
\* table has another length, and then returns no clamped or interpolated
\* value.  table fails for such a table too, with the size error when x is
\* not outside the closed domain and with the range error, raised first,
\* when x is outside it.
C10_SizeErrorTruncated ==
    /\ lkOut.fn = "tabhl" =>
          /\ lkOut.err = "size" <=> Len(lk.ytbl) # LkLength
          /\ lkOut.err = "size" => lkOut.val = Zero0
    /\ lkOut.fn = "table" =>
          /\ LkOutside => lkOut.err = "range"
          /\ ~LkOutside => (lkOut.err = "size" <=> Len(lk.ytbl) # LkLength)

\* tabhl refusing a mis-sized table for an x it would otherwise clamp
C10_Witness ==
    /\ lkOut.fn = "tabhl"
    /\ Len(lk.ytbl) # LkLength
    /\ LkOutside
    /\ lkOut.err = "size"

\* table raising the range error for a mis-sized table
C10_WitnessRangeFirst ==
    /\ lkOut.fn = "table"
    /\ Len(lk.ytbl) # LkLength
    /\ LkOutside
    /\ lkOut.err = "range"

\* a table of the truncated length accepted where rounding asks for one more entry
C10_WitnessTruncated ==
    /\ lkOut.fn = "tabhl"
    /\ Len(lk.ytbl) = LkLength /\ LkLength # LkRoundedLength
    /\ lkOut.err = "none"

\* three entries accepted over 0 .. 0.3 step 0.1, where 0.3 / 0.1 is
\* 2.9999999999999996
C10_WitnessDecimal ==
    /\ lkOut.fn = "table"
    /\ lk.xstart = Zero0 /\ lk.xend = Milli(300) /\ lk.xstep = Milli(100)
    /\ lk.x = lk.xend
    /\ Len(lk.ytbl) = 3
    /\ lkOut.err = "none" /\ lkOut.val = lk.ytbl[3]

\* a domain of 2^64 - 2048 unit steps requires the length 2^64 - 2048, which
\* no table has: tabhl fails with the size error inside the domain
C10_WitnessLong ==
    /\ lkOut.fn = "tabhl"
    /\ lk.xend = FSub(TwoTo64, FromInt(2048)) /\ lk.xstep = One
    /\ LkLength = 0 - 2048
    /\ LkInside /\ Len(lk.ytbl) = 3
    /\ lkOut.err = "size"

\* the segment of lk.x: trunc((x - xstart) / xstep)
LkSegment == ToSize(build, FDiv(FSub(lk.x, lk.xstart), lk.xstep))

\* the grid point i: xstart + i * xstep
LkGrid(i) == FAdd(lk.xstart, FMul(FromInt(i), lk.xstep))

\* lk.x is the grid point i
LkAtGrid(i) == lk.x = LkGrid(i)

\* C11 as stated: for a correctly sized table of length n, table at the grid
\* point xstart + i * xstep returns exactly entry i, for every i in 0..n-1,
\* the final grid point included, in ascending and descending domains.
C11_GridPoints ==
    (lkOut.fn = "table" /\ LkSized) =>
        \A i \in 0..(Len(lk.ytbl) - 1) :
            LkAtGrid(i) => lkOut.err = "none" /\ lkOut.val = lk.ytbl[i + 1]

\* C11, amended: for a correctly sized table of length n, table at the grid
\* point x = xstart + i * xstep, i in 0..n-1, returns exactly entry i
\* whenever the doubles x - xstart and xstep * i are equal and
\* (x - xstart) / xstep truncates to i, as at every grid point of a grid of
\* whole or binary fractions, the final one included, ascending or
\* descending.  On other grids rounding may leave the index at i - 1 and
\* the result beside entry i by more than DBL_EPSILON.
C11_ExactGridPoints ==
    (lkOut.fn = "table" /\ LkSized) =>
        \A i \in 0..(Len(lk.ytbl) - 1) :
            (/\ LkAtGrid(i)
             /\ FSub(lk.x, lk.xstart) = FMul(lk.xstep, FromInt(i))
             /\ LkSegment = i)
            => lkOut.err = "none" /\ lkOut.val = lk.ytbl[i + 1]

\* an inner grid point of a descending domain, its entry unlike the others
C11_Witness ==
    /\ lkOut.fn = "table" /\ LkSized /\ LkNonEmpty
    /\ FLt(lk.xstep, Zero0)
    /\ LkAtGrid(1) /\ Len(lk.ytbl) = 3
    /\ LkSegment = 1
    /\ lkOut.val = lk.ytbl[2]
    /\ lk.ytbl[2] # lk.ytbl[3] /\ lk.ytbl[2] # lk.ytbl[1]

\* the grid point -0.9 + 0.1 over -0.9 .. -0.7 step 0.1: the index is 0 and
\* the result is not entry 1, even as the tests compare doubles
C11_WitnessRounded ==
    /\ lkOut.fn = "table" /\ LkSized /\ LkNonEmpty
    /\ LkAtGrid(1) /\ Len(lk.ytbl) = 3
    /\ LkSegment = 0
    /\ lkOut.err = "none"
    /\ ~Near(lkOut.val, lk.ytbl[2])

\* the value tabhl's interpolation has for segment i
LkLine(i) ==
    FAdd(lk.ytbl[i + 1],
         FDiv(FMul(FSub(FSub(lk.x, lk.xstart), FMul(lk.xstep, FromInt(i))),
                   FSub(lk.ytbl[i + 2], lk.ytbl[i + 1])),
              lk.xstep))

\* lk.x is the midpoint of the grid points i and i + 1
LkAtMidpoint(i) ==
    lk.x = FAdd(FAdd(lk.xstart, FMul(lk.xstep, FromInt(i))), FDiv(lk.xstep, FromInt(2)))

\* the mean of entries i and i + 1
LkMean(i) == FDiv(FAdd(lk.ytbl[i + 1], lk.ytbl[i + 2]), FromInt(2))

\* C12 as stated: for x inside the domain, table and tabhl both return the
\* linear interpolation T[i] + (x - xstart - xstep*i) * (T[i+1] - T[i]) / xstep
\* with i = trunc((x - xstart) / xstep) (entry i itself on the last entry,
\* where there is no T[i+1]); at the midpoint of grid points i and i+1 this
\* is (T[i] + T[i+1]) / 2; and for T3 over 0..60 step 10 it is 0.45 at x = 25
\* and 0.023 at x = 59.  The midpoint and the two numbers are compared as the
\* repository's tests compare doubles (a difference below DBL_EPSILON).
C12_Interpolation ==
    (lkOut.fn \in {"tabhl", "table"} /\ LkSized /\ LkNonEmpty /\ LkInside) =>
        /\ lkOut.err = "none"
        /\ LkSegment = Len(lk.ytbl) - 1 => lkOut.val = lk.ytbl[LkSegment + 1]
        /\ (0 <= LkSegment /\ LkSegment < Len(lk.ytbl) - 1) =>
              /\ lkOut.val = LkLine(LkSegment)
              /\ LkAtMidpoint(LkSegment) => Near(lkOut.val, LkMean(LkSegment))
        /\ (lk.ytbl = T3 /\ lk.x = FromInt(25)) => Near(lkOut.val, Milli(450))
        /\ (lk.ytbl = T3 /\ lk.x = FromInt(59)) => Near(lkOut.val, Milli(23))

\* a is a whole number below 2^31 in magnitude
Whole(a) == IsSmall(a) /\ FAbs(a) = FromInt(IntPart(a))

\* a is a multiple of 1/4 below 2^20 in magnitude: sums, differences and
\* products of two such numbers are exact doubles
Quarters(a) == Whole(FMul(a, FromInt(4))) /\ FLt(FAbs(a), FromInt(1048576))

\* x, the domain and the entries of the table are multiples of 1/4 below
\* 2^20: no operation of the interpolation rounds
LkBinary ==
    /\ Quarters(lk.x) /\ Quarters(lk.xstart) /\ Quarters(lk.xstep)
    /\ \A n \in DOMAIN lk.ytbl : Quarters(lk.ytbl[n])

\* C12, amended: for x inside the domain, table and tabhl both return entry
\* i = trunc((x - xstart) / xstep) itself on the last entry and otherwise the
\* value of T[i] + (x - xstart - xstep*i) * (T[i+1] - T[i]) / xstep in double
\* arithmetic.  At a midpoint this is exactly (T[i] + T[i+1]) / 2 when x,
\* the domain and the entries are multiples of 1/4 below 2^20 (as in the
\* repository's tests), and only near it otherwise.  For T3 over 0..60 step 10 the value
\* at x = 59 is 0.023 and the value at x = 25 is 0.44999999999999996, which
\* the tests take for 0.45 (a difference below DBL_EPSILON).
C12_InterpolationRounded ==
    (lkOut.fn \in {"tabhl", "table"} /\ LkSized /\ LkNonEmpty /\ LkInside) =>
        /\ lkOut.err = "none"
        /\ LkSegment = Len(lk.ytbl) - 1 => lkOut.val = lk.ytbl[LkSegment + 1]
        /\ (0 <= LkSegment /\ LkSegment < Len(lk.ytbl) - 1) =>
              /\ lkOut.val = LkLine(LkSegment)
              /\ (LkAtMidpoint(LkSegment) /\ LkBinary) => lkOut.val = LkMean(LkSegment)
        /\ (lk.ytbl = T3 /\ lk.x = FromInt(25)) =>
              /\ Near(lkOut.val, Milli(450))
              /\ lkOut.val = FSub(Milli(450), Num(0, -106, << 0, 0, 0, 1024 >>))
        /\ (lk.ytbl = T3 /\ lk.x = FromInt(59)) => lkOut.val = Milli(23)

\* the midpoint 0.25 of 0.3 .. 0 step -0.1: the result is beside the mean of
\* the two entries by DBL_EPSILON
C12_WitnessRounded ==
    /\ lkOut.fn = "table" /\ LkSized /\ LkNonEmpty /\ LkInside
    /\ 0 <= LkSegment /\ LkSegment < Len(lk.ytbl) - 1
    /\ LkAtMidpoint(LkSegment)
    /\ lkOut.err = "none"
    /\ ~Near(lkOut.val, LkMean(LkSegment))

\* the examples of test(): table(t3, 59, 0, 60, 10) is 0.023 and
\* table(t3, 25, 0, 60, 10) is 0.45 as the tests compare
C12_Witness ==
    /\ lkOut.fn = "table"
    /\ lk.ytbl = T3 /\ lk.x = FromInt(59)
    /\ lkOut.err = "none" /\ lkOut.val = Milli(23)

C12_WitnessNear ==
    /\ lkOut.fn = "table"
    /\ lk.ytbl = T3 /\ lk.x = FromInt(25)
    /\ lkOut.err = "none" /\ lkOut.val # Milli(450) /\ Near(lkOut.val, Milli(450))

\* a midpoint of a descending domain, between two unlike entries
C12_WitnessMidpoint ==
    /\ lkOut.fn = "tabhl" /\ LkSized /\ LkNonEmpty /\ LkInside
    /\ FLt(lk.xstep, Zero0)
    /\ 0 <= LkSegment /\ LkSegment < Len(lk.ytbl) - 1
    /\ LkAtMidpoint(LkSegment)
    /\ LkBinary
    /\ lk.ytbl[LkSegment + 1] # lk.ytbl[LkSegment + 2]
    /\ lkOut.val = LkMean(LkSegment)

-----------------------------------------------------------------------------
(* Properties of the switches and of the order of the assignments, checked
   under Spec *)

\* the birth rate of snapshot v with the normal birth rate n
BrWith(v, n) == FMul(FMul(FMul(FMul(FMul(v.p, n), v.brfm), v.brmm), v.brcm), v.brpm)

\* the death rate of snapshot v with the normal death rate n
DrWith(v, n) == FMul(FMul(FMul(FMul(FMul(v.p, n), v.drmm), v.drpm), v.drfm), v.drcm)

\* the usage rate of natural resources of snapshot v with the normal rate n
NrurWith(v, n) == FMul(FMul(v.p, n), v.nrmm)

\* C13: clip returns the value before the switch when the switch time is >=
\* the current time and the value after it otherwise: a snapshot whose time
\* equals the switch time still uses the 'before' value, and the 'after' value
\* first applies in the first snapshot whose time is strictly greater (seen
\* on the birth rate, switch swt1, the usage rate of natural resources,
\* switch swt2, and the death rate, switch swt3).
C13_Clip ==
    nok >= 1 =>
        /\ ret.br = BrWith(ret, IF FGe(c.swt1, ret.time) THEN c.brn ELSE c.brn1)
        /\ ret.nrur = NrurWith(ret, IF FGe(c.swt2, ret.time) THEN c.nrun ELSE c.nrun1)
        /\ ret.dr = DrWith(ret, IF FGe(c.swt3, ret.time) THEN c.drn ELSE c.drn1)

\* a snapshot exactly at the switch time, where the two values give unlike rates
C13_Witness ==
    /\ nok >= 1 /\ last = "ok"
    /\ ret.time = c.swt1
    /\ ret.br = BrWith(ret, c.brn)
    /\ ret.br # BrWith(ret, c.brn1)

\* the first snapshot after the switch time uses the 'after' value
C13_WitnessAfter ==
    /\ nok >= 1 /\ last = "ok"
    /\ ret.time = FAdd(c.swt1, c.dt)
    /\ ret.br = BrWith(ret, c.brn1)
    /\ ret.br # BrWith(ret, c.brn)

\* the fourth snapshot of the step 0.2 lies at 1900.6000000000001, beyond a
\* switch time of 1900.6, and uses the 'after' value
C13_WitnessRounded ==
    /\ nok = 4 /\ last = "ok"
    /\ c.swt2 = Milli(1900600)
    /\ FGt(ret.time, c.swt2)
    /\ ret.nrur = NrurWith(ret, c.nrun1)
    /\ ret.nrur # NrurWith(ret, c.nrun)

\* the rates of a snapshot
Rates == { "br", "nrur", "dr", "cig", "cid", "polg", "pola" }

\* the switches of world::constants: 'before' value, 'after' value, switch time
Switches ==
    << << "brn", "brn1", "swt1" >>, << "nrun", "nrun1", "swt2" >>,
       << "drn", "drn1", "swt3" >>, << "cign", "cign1", "swt4" >>,
       << "cidn", "cidn1", "swt5" >>, << "poln", "poln1", "swt6" >>,
       << "fc", "fc1", "swt7" >> >>

\* the parameters with both values of switch s doubled
Doubled(cs, s) ==
    [cs EXCEPT ![Switches[s][1]] = FMul(FromInt(2), @),
               ![Switches[s][2]] = FMul(FromInt(2), @)]

\* the formula of field f reads the value selected by switch s
GatedBy(f, s, cs, k) ==
    Rhs(build, tables, f, Doubled(cs, s), k).val # Rhs(build, tables, f, cs, k).val

\* the value switch s selects at the time of the returned snapshot
Selected(s) ==
    IF FGe(c[Switches[s][3]], ret.time) THEN c[Switches[s][1]] ELSE c[Switches[s][2]]

\* a is a number other than 0
Weighs(a) == a.k = "num" /\ ~IsZero(a)

\* C16 as stated: every one of the seven rates is gated by a switch.
C16_AllRatesGated ==
    (last = "ok" /\ \A f \in Rates : Weighs(ret[f])) =>
        \A f \in Rates : \E s \in DOMAIN Switches : GatedBy(f, s, c, ret)

\* C16, amended: each rate is computed from the levels and auxiliaries of
\* the same snapshot; br, nrur, dr, cig, cid and polg take their policy
\* constant through switches 1..6 evaluated at the snapshot's time; pola is
\* pol / polat and reads no switch; switch 7 gates the auxiliary fr.
C16_RatesGated ==
    nok >= 1 =>
        /\ ret.br = BrWith(ret, Selected(1))
        /\ ret.nrur = NrurWith(ret, Selected(2))
        /\ ret.dr = DrWith(ret, Selected(3))
        /\ ret.cig = FMul(FMul(ret.p, ret.cim), Selected(4))
        /\ ret.cid = FMul(ret.ci, Selected(5))
        /\ ret.polg = FMul(FMul(ret.p, Selected(6)), ret.polcm)
        /\ ret.pola = FDiv(ret.pol, ret.polat)
        /\ \A s \in DOMAIN Switches : ~GatedBy("pola", s, c, ret)
        /\ Weighs(ret.fr) => GatedBy("fr", 7, c, ret)
        /\ \A f \in Rates : ~GatedBy(f, 7, c, ret)

\* a snapshot after all six switch times, every 'after' value unlike its
\* 'before' value and giving another rate
C16_Witness ==
    /\ nok >= 1 /\ last = "ok"
    /\ \A s \in 1..6 :
          FGt(ret.time, c[Switches[s][3]]) /\ c[Switches[s][1]] # c[Switches[s][2]]
    /\ ret.br # BrWith(ret, c.brn)
    /\ ret.nrur # NrurWith(ret, c.nrun)
    /\ ret.dr # DrWith(ret, c.drn)
    /\ ret.cig # FMul(FMul(ret.p, ret.cim), c.cign)
    /\ ret.cid # FMul(ret.ci, c.cidn)
    /\ ret.polg # FMul(FMul(ret.p, c.poln), ret.polcm)
    /\ ret.pola = FDiv(ret.pol, ret.polat)
    /\ Weighs(ret.fr) /\ GatedBy("fr", 7, c, ret)

\* the fields the level pass of tick() assigns
LevelFields == { "p", "nr", "ci", "pol", "ciaf", "time" }

\* the fields assigned before statement i runs
AssignedBefore(i) == LevelFields \cup { Statements[m] : m \in 1..(i - 1) }

\* snapshot v as statement i finds it, except that every field not yet
\* assigned holds g instead of the default 0
Unassigned(v, i, g) ==
    [f \in DOMAIN v |-> IF f \in AssignedBefore(i) THEN v[f] ELSE g]

\* tick() has just returned: nothing has been asked of the engine since
JustReturned == last = "ok" /\ rc = "none" /\ held.n = 0

\* C17: the auxiliary and rate assignments of a tick are in dependency
\* order: each formula reads only constants, the levels of the tick and
\* fields assigned earlier in the same tick, never a field still holding its
\* default 0.  Stated on the snapshot a tick() has just returned: each field
\* has the value of its formula also when every field not yet assigned at
\* that statement holds some other value than 0.
C17_DependencyOrder ==
    JustReturned =>
        \A i \in DOMAIN Statements :
            \A g \in { Zero0, One, FromInt(3) } :
                /\ Rhs(build, tables, Statements[i], c, Unassigned(ret, i, g)).err = "none"
                /\ Rhs(build, tables, Statements[i], c, Unassigned(ret, i, g)).val
                      = ret[Statements[i]]

\* a later tick whose auxiliaries and rates are all away from the default
C17_Witness ==
    /\ nok >= 2 /\ JustReturned
    /\ \A i \in DOMAIN Statements : Weighs(ret[Statements[i]])
    /\ Unassigned(ret, 1, One) # ret
    /\ Unassigned(ret, Len(Statements), One).pola = One

\* the levels the latest tick() call computed first, also when it then failed
NewLevels ==
    IF before.exists THEN LevelsFromJ(c, before.j) ELSE LevelsInitial(c)

\* v lies outside lo .. hi
Outside(v, lo, hi) == FLt(v, lo) \/ FGt(v, hi)

\* C18: a tick() call fails, with the range error, exactly when at the new
\* instant nr / nri is outside 0..1, p / (la * pdn) outside 0..5 or
\* pol / pols outside 0..60; the arguments of the clamped lookups (msl, cir,
\* cira, fr, qlm / qlf) cause no failure however far outside they are.
C18_RangeFailure ==
    calls >= 1 =>
        /\ last # "size"
        /\ last = "range" <=>
              \/ Outside(FDiv(NewLevels.nr, c.nri), Zero0, One)
              \/ Outside(FDiv(NewLevels.p, FMul(c.la, c.pdn)), Zero0, FromInt(5))
              \/ Outside(FDiv(NewLevels.pol, c.pols), Zero0, FromInt(60))
        /\ last = "fault" =>
              \/ IsNaN(FDiv(NewLevels.nr, c.nri))
              \/ IsNaN(FDiv(NewLevels.ci, NewLevels.p))

\* a tick that returns although msl, cir, cira and fr are beyond every domain
\* they are looked up in
C18_Witness ==
    /\ last = "ok" /\ ret = j
    /\ FGt(ret.msl, FromInt(10))
    /\ FGt(ret.cir, FromInt(5))
    /\ FGt(ret.cira, FromInt(6))
    /\ FGt(ret.fr, FromInt(4))

\* a tick that returns although qlm / qlf is beyond its domain: with no
\* food (fc = 0) it is infinite
C18_WitnessQuality ==
    /\ last = "ok" /\ ret = j
    /\ FDiv(ret.qlm, ret.qlf) = Inf(0)
    /\ ret.ciqr = FromInt(2)

\* a tick that fails because the resources have gone below zero
C18_WitnessFails ==
    /\ last = "range"
    /\ Outside(FDiv(NewLevels.nr, c.nri), Zero0, One)

\* a crowding ratio of exactly 5 is looked up, one of 5.000003 is refused
C18_WitnessEdge ==
    /\ last = "ok" /\ nok = 1
    /\ ret.cr = FromInt(5)

C18_WitnessBeyondEdge ==
    /\ last = "range" /\ nok = 0
    /\ FGt(FDiv(NewLevels.p, FMul(c.la, c.pdn)), FromInt(5))
    /\ FLt(FDiv(NewLevels.p, FMul(c.la, c.pdn)), Milli(5001))

-----------------------------------------------------------------------------
(* Properties of the engine after completion and after a failure *)

\* the stored snapshot is beyond endtime
Completed == time_j_exists_ /\ FGt(j.time, c.endtime)

\* C21: for dt > 0 completion is stable: once the stored snapshot is beyond
\* endtime (run_complete() answers true) it stays so over every further
\* tick() call, returning or failing; and tick() does not refuse to run on a
\* complete engine: a call that returns has stepped the time by dt.
C21_CompletionStable ==
    [][(FGt(c.dt, Zero0) /\ Completed) =>
          /\ Completed'
          /\ (calls' # calls /\ last' = "ok") => j'.time = FAdd(j.time, c.dt)]_vars

\* the same without the condition on dt; a negative step takes the time
\* back below endtime, so this one does not hold
C21_StableAnyStep == [][Completed => Completed']_vars

\* a tick() call has returned on an engine that was complete before it
C21_Witness ==
    /\ FGt(c.dt, Zero0)
    /\ last = "ok"
    /\ before.exists /\ FGt(before.j.time, c.endtime)
    /\ j.time = FAdd(before.j.time, c.dt)
    /\ Completed

\* a tick() call has failed on an engine that was complete before it
C21_WitnessFailed ==
    /\ FGt(c.dt, Zero0)
    /\ last = "range"
    /\ before.exists /\ FGt(before.j.time, c.endtime)
    /\ Completed

\* the outcomes of a tick() call that threw
Failures == { "range", "size" }

\* C22: a failed tick() is permanent.  A failing call leaves the stored
\* snapshot, the has-prior-snapshot flag and so the answer of run_complete()
\* as they were; from then on every tick() call fails with the same error,
\* the time never advances, and run_complete() keeps its answer.
C22_FailurePermanent ==
    [][/\ (calls' # calls /\ last' \in Failures) =>
              /\ j' = j
              /\ time_j_exists_' = time_j_exists_
              /\ Completed' <=> Completed
       /\ last \in Failures =>
              /\ calls' # calls => last' = last
              /\ j'.time = j.time
              /\ Completed' <=> Completed]_vars

\* three tick() calls in a row have failed after one that returned, on an
\* engine that is not complete: a loop on run_complete() would not end
C22_Witness ==
    /\ last = "range"
    /\ nok >= 1 /\ calls >= nok + 3
    /\ j = before.j /\ j = ret
    /\ ~Completed
    /\ rc = "false"

\* the same on an engine whose very first tick() failed
C22_WitnessFirst ==
    /\ last = "range"
    /\ nok = 0 /\ calls >= 3
    /\ ~time_j_exists_
    /\ rc = "false"

-----------------------------------------------------------------------------
(* Properties of the lookup tables of tick() *)

\* the fields tick() assigns from a lookup call
LookupFields ==
    { "nrem", "brmm", "drmm", "drcm", "brcm", "fcm", "qlc", "cim", "fpm", "drpm",
      "brpm", "polcm", "polat", "qlm", "qlp", "nrmm", "fpci", "drfm", "brfm",
      "cfifr", "qlf", "ciqr" }

\* a snapshot all of whose fields hold g
Everywhere(g) == [f \in DOMAIN ZeroVariables |-> g]

\* the table of the lookup call that assigns field f has the length its
\* domain and step imply
TableFits(f) ==
    Len(tables[f].ytbl)
        = ToSize(build, FAdd(FDiv(FSub(tables[f].xend, tables[f].xstart), tables[f].xstep), One))

\* C24: each of the 22 lookup calls of tick() passes a literal table of the
\* length its domain and step imply, trunc((xend - xstart) / xstep + 1): no
\* tick() call fails with the size error, whatever the parameters and the
\* state; the only error of tick() is the range error.
C24_NoSizeError ==
    /\ last \notin { "size" }
    /\ Cardinality(LookupFields) = 22
    /\ LookupFields = DOMAIN tables
    /\ LookupFields \subseteq { Statements[i] : i \in DOMAIN Statements }
    /\ calls = 0 => \A f \in LookupFields : TableFits(f)
    /\ JustReturned => \A f \in LookupFields : Rhs(build, tables, f, c, ret).err = "none"
    /\ (calls = 0 /\ rc = "none" /\ held.n = 0) =>
          \A f \in LookupFields : \A g \in { FromInt(-7), One, FromInt(100) } :
              Rhs(build, tables, f, c, Everywhere(g)).err \in { "none", "range" }

\* tick() calls have returned and then one has failed, with the range error
C24_Witness ==
    /\ last = "range"
    /\ nok >= 1
    /\ \A f \in LookupFields : Rhs(build, tables, f, c, ret).err = "none"
    /\ \E f \in LookupFields : Rhs(build, tables, f, c, Everywhere(FromInt(100))).err = "range"

-----------------------------------------------------------------------------
(* Index safety of tabhl, checked under SpecLookup *)

\* the step is not zero and has the sign of xend - xstart
LkStepAgrees ==
    \/ FGt(lk.xstep, Zero0) /\ FGe(lk.xend, lk.xstart)
    \/ FLt(lk.xstep, Zero0) /\ FLe(lk.xend, lk.xstart)

\* the subscripts tabhl evaluates in the call lk
LkReads ==
    TabhlReads(lk.ytbl, lk.x, lk.xstart, lk.xend,
               TabRange(build, lk.xstart, lk.xend, lk.xstep),
               TabIndex(build, lk.x, lk.xstart, lk.xstep))

\* C23: index safety of tabhl.  For a table that passes the size check, a
\* step that is not zero and has the sign of xend - xstart, and x in the
\* closed domain, the segment index i = trunc((x - xstart) / xstep) is in
\* 0..n-1 and entry i+1 is read only when i < n-1: every subscript is inside
\* the table, also when the span is no whole multiple of the step.
C23_IndexSafety ==
    (Len(lk.ytbl) = LkLength /\ LkStepAgrees /\ LkInside) =>
        /\ 0 <= LkSegment /\ LkSegment <= Len(lk.ytbl) - 1
        /\ LkSegment \in LkReads
        /\ LkSegment + 1 \in LkReads => LkSegment < Len(lk.ytbl) - 1
        /\ LkReads \subseteq 0..(Len(lk.ytbl) - 1)
        /\ lkOut.fn # "none" => lkOut.err = "none"

\* tabhl has answered at xend of a domain whose span is no whole multiple of
\* the step: the index is that of the last entry, which is returned
C23_Witness ==
    /\ lkOut.fn = "tabhl" /\ lkOut.err = "none"
    /\ Len(lk.ytbl) = LkLength /\ LkStepAgrees
    /\ lk.x = lk.xend
    /\ LkGrid(Len(lk.ytbl) - 1) # lk.xend
    /\ LkSegment = Len(lk.ytbl) - 1
    /\ Len(lk.ytbl) >= 2
    /\ lkOut.val = lk.ytbl[Len(lk.ytbl)]
    /\ lk.ytbl[Len(lk.ytbl)] # lk.ytbl[Len(lk.ytbl) - 1]

\* tabhl has interpolated on the last segment, reading entries n-2 and n-1
C23_WitnessInner ==
    /\ lkOut.fn = "tabhl" /\ lkOut.err = "none"
    /\ Len(lk.ytbl) = LkLength /\ LkInside
    /\ Len(lk.ytbl) = 3
    /\ LkReads = { 1, 2 }
    /\ FLt(lk.xstep, Zero0)

\* xend of 0 .. 0.3 step 0.1, where three entries pass the size check: the
\* quotient 2.9999999999999996 gives the index of the last of them
C23_WitnessDecimal ==
    /\ lkOut.fn = "tabhl" /\ lkOut.err = "none"
    /\ lk.xstart = Zero0 /\ lk.xend = Milli(300) /\ lk.xstep = Milli(100)
    /\ lk.x = lk.xend
    /\ Len(lk.ytbl) = 3 /\ LkLength = 3
    /\ LkReads = { 2 }

-----------------------------------------------------------------------------
(* Properties of the driving loop, checked under SpecRun *)

\* test(): character positions read from Figure 4-1 of World Dynamics
expected_p_y ==
    << 12, 12, 12, 13, 13, 14, 15, 16, 17, 18,
       19, 20, 21, 22, 23, 25, 26, 27, 28, 30,
       31, 32, 34, 35, 36, 37, 38, 39, 39, 40,
       40, 40, 39, 39, 39, 38, 37, 37, 36, 35,
       34, 34, 33, 32, 32, 31, 30, 30, 29, 28,
       28 >>

expected_polr_y ==
    <<  0,  0,  0,  0,  0,  0,  0,  0,  0,  0,
        0,  1,  1,  1,  1,  1,  1,  1,  1,  2,
        2,  2,  2,  3,  3,  4,  4,  4,  5,  5,
        6,  6,  7,  7,  8,  8,  8,  9,  9,  8,
        8,  8,  8,  7,  7,  6,  6,  5,  5,  4,
        4 >>

\* the run is the default run of test()
DefaultRun == c.endtime = FromInt(2100) /\ c.dt = Milli(200) /\ c.pi = Mega(1650)

\* C15: with the default parameters, sampling every 20th tick from tick 0,
\* the rounded graph positions round(p / 8e9 * 60) and round(polr / 40 * 60)
\* of every sample equal the reference arrays of test(); sample 0 gives 12
\* and 0, sample 10 (tick 200) gives 19 and 0.
C15_Regression ==
    DefaultRun =>
        /\ Len(samples) <= Len(expected_p_y)
        /\ \A i \in 1..Len(samples) :
              /\ samples[i].tick = (i - 1) * SampleInterval
              /\ samples[i].p_y = expected_p_y[i]
              /\ samples[i].polr_y = expected_polr_y[i]
        /\ Len(samples) >= 1 => samples[1].p_y = 12 /\ samples[1].polr_y = 0
        /\ Len(samples) >= 11 =>
              samples[11].tick = 200 /\ samples[11].p_y = 19 /\ samples[11].polr_y = 0

\* the default run has ended with all its samples taken
C15_Witness ==
    /\ DefaultRun
    /\ rc = "true"
    /\ Len(samples) = Len(expected_p_y)
    /\ samples[Len(samples)].p_y = 28
    /\ samples[Len(samples)].polr_y = 4

\* C19 as stated: the loop over a default engine (time 1900, dt 0.2, endtime
\* 2100), sampling the ticks whose 0-based index is a multiple of 20, takes
\* exactly 51 samples: the sample index never exceeds 50, the last sample is
\* the snapshot at time 2100, and the snapshot whose time equals endtime
\* does not end the run.
C19_Samples ==
    DefaultRun =>
        /\ Len(samples) <= 51
        /\ \A i \in 1..Len(samples) : i - 1 <= 50 /\ samples[i].tick = 20 * (i - 1)
        /\ (nok >= 1 /\ ret.time = c.endtime) => rc = "none"
        /\ Len(samples) = 51 => samples[51].time = FromInt(2100)
        /\ rc = "true" => Len(samples) = 51

\* the spacing of the doubles from 1024 to 2048: 2^-42
Spacing1024 == Num(0, -94, << 0, 0, 0, 1024 >>)

\* C19, amended: the loop over a default engine takes exactly 51 samples, of
\* the ticks 0, 20, ..., 1000, in 1002 calls of tick(): the sample index
\* never exceeds 50.  The times are rounded sums, so no snapshot has the
\* time 2100 exactly: the last sample, of tick 1000, has the time
\* 2099.9999999999864 (60 places below 2100, printed as 2100), is not
\* beyond endtime and does not end the run; the snapshot after it does.
C19_SamplesRounded ==
    DefaultRun =>
        /\ Len(samples) <= 51
        /\ \A i \in 1..Len(samples) : i - 1 <= 50 /\ samples[i].tick = 20 * (i - 1)
        /\ nok >= 1 => ret.time # c.endtime
        /\ Len(samples) = 51 =>
              /\ samples[51].tick = 1000
              /\ samples[51].time = FSub(FromInt(2100), FMul(FromInt(60), Spacing1024))
              /\ FLt(samples[51].time, c.endtime)
        /\ (Len(samples) = 51 /\ calls = 1001) => ~run_complete
        /\ rc = "true" =>
              /\ Len(samples) = 51
              /\ calls = 1002
              /\ ret.time = FAdd(samples[51].time, c.dt)
              /\ FGt(ret.time, c.endtime)

\* the last sample has been taken, below endtime, and the run goes on
C19_Witness ==
    /\ DefaultRun
    /\ last = "ok" /\ calls = 1001
    /\ Len(samples) = 51 /\ samples[51].time = ret.time
    /\ FLt(ret.time, c.endtime)
    /\ ~run_complete

\* the run has ended one tick later
C19_WitnessEnd ==
    /\ DefaultRun
    /\ rc = "true"
    /\ calls = 1002
    /\ Len(samples) = 51

\* floor of a double from 0 to below 2^31
Floor(a) == IntPart(a)

\* the number of tick() calls the claim gives for the parameters of the run
CallsNeeded ==
    IF FGe(c.endtime, c.time)
    THEN Floor(FDiv(FSub(c.endtime, c.time), c.dt)) + 2
    ELSE 1

\* time0, dt and endtime are multiples of 1/4 below 2^20: no sum of the run
\* rounds, and the program's arithmetic is the exact arithmetic of the claim
ExactTimes == Quarters(c.time) /\ Quarters(c.dt) /\ Quarters(c.endtime)

\* the number of calls the claim gives, where the arithmetic is exact
ExactCount ==
    /\ FLt(c.endtime, c.time) => (calls >= 1 <=> Completed) /\ calls <= 1
    /\ ExactTimes =>
          /\ calls <= CallsNeeded
          /\ calls < CallsNeeded => ~Completed /\ rc = "none"
          /\ calls = CallsNeeded => Completed
          /\ rc = "true" => calls = CallsNeeded

\* the run is stuck: the stored snapshot is not beyond endtime and the sum
\* j.time + c.dt is j.time again.  k.time = j.time + c.dt (line 581) and
\* run_complete() (line 565) read only j.time, c.dt and c.endtime, so every
\* later tick() that returns stores the same time and the run stays stuck.
Stuck == time_j_exists_ /\ ~FGt(j.time, c.endtime) /\ FAdd(j.time, c.dt) = j.time

\* C20 as stated: for dt > 0, as long as no tick() fails, run_complete()
\* becomes true after finitely many calls of tick(), so the run is never
\* stuck; with exact arithmetic after exactly floor((endtime - time0) / dt)
\* + 2 calls when endtime >= time0 and after exactly 1 call when endtime <
\* time0, and never before a snapshot has been produced.
C20_CallsNeeded ==
    (FGt(c.dt, Zero0) /\ last \in { "none", "ok" }) =>
        /\ ~Stuck
        /\ rc = "true" => calls >= 1
        /\ ExactCount

\* C20, amended: for dt > 0, as long as no tick() fails, run_complete()
\* becomes true after finitely many calls of tick() provided every sum
\* j.time + dt the run reaches exceeds j.time: each tick() then returns a
\* later time, and the run ends with the first snapshot whose time exceeds
\* endtime, never without a snapshot.  Where a sum rounds back to j.time at
\* a time not beyond endtime (dt = 2^-45 at 1900) the time stays there and
\* run_complete() never becomes true.  With exact arithmetic the run takes
\* exactly floor((endtime - time0) / dt) + 2 calls when endtime >= time0,
\* and exactly 1 call when endtime < time0.
C20_CallsRounded ==
    (FGt(c.dt, Zero0) /\ last \in { "none", "ok" }) =>
        /\ rc = "true" =>
              /\ calls >= 1 /\ Completed
              /\ before.exists => ~FGt(before.j.time, c.endtime)
        /\ (~Completed /\ calls < MaxRunCalls) => rc = "none"
        /\ (last = "ok" /\ nok >= 2) =>
              /\ ret.time = FAdd(before.j.time, c.dt)
              /\ FGe(ret.time, before.j.time)
              /\ ret.time = before.j.time <=> FAdd(before.j.time, c.dt) = before.j.time
        /\ (before.exists /\ FAdd(before.j.time, c.dt) = before.j.time
                /\ ~FGt(before.j.time, c.endtime)) => Stuck /\ rc = "none"
        /\ Stuck => ~Completed /\ rc = "none"
        /\ ExactCount

\* a run that ends after 3 + 2 calls, one of its snapshots being at endtime
C20_Witness ==
    /\ rc = "true" /\ last = "ok"
    /\ ExactTimes
    /\ before.j.time = c.endtime
    /\ calls = 5 /\ CallsNeeded = 5

\* a run with endtime before the initial time ends after one call
C20_WitnessOneCall ==
    /\ rc = "true" /\ last = "ok"
    /\ FLt(c.endtime, c.time)
    /\ calls = 1

\* the run of the step 0.4 to 1901.2 ends after 4 calls, where the formula
\* gives 5: the arithmetic of this run is not exact
C20_WitnessRounded ==
    /\ rc = "true" /\ last = "ok"
    /\ c.dt = Milli(400) /\ ~ExactTimes
    /\ calls = 4 /\ CallsNeeded = 5

\* the run of the step 2^-45 is stuck at 1900 after 1000 calls of tick()
C20_WitnessStuck ==
    /\ last = "ok" /\ calls = 1000 /\ nok = 1000
    /\ FGt(c.dt, Zero0)
    /\ Stuck /\ ret.time = c.time
    /\ ~Completed /\ rc = "none"

====
